---------------------------- MODULE Spec2Model ----------------------------
(***************************************************************************)
(* A model of the adaptive deforestation detector of IndiAlert             *)
(* (src/ml/algorithms/deforestation.py) seen at one pixel of the AOI.      *)
(*                                                                         *)
(* Numbers.  Every real quantity of the code (index values, scores,        *)
(* thresholds, multipliers) is a fixed-point integer counted in units of   *)
(* 1/10000: 0.05 is 500, 1.0 is 10000, 1.8 is 18000.  A product or a       *)
(* quotient is rounded to the nearest unit, as the code's floating-point   *)
(* arithmetic rounds to the nearest representable value.                   *)
(*                                                                         *)
(* Rasters.  The Earth Engine expressions of the code are elementwise, so  *)
(* a raster is modelled by its value at one pixel.  The two neighbourhood  *)
(* or region reductions the stages read (the 3x3 mean of the score, the    *)
(* AOI statistics of the score) are answers of the provider and are        *)
(* chosen nondeterministically.                                            *)
(***************************************************************************)
EXTENDS Integers, Sequences, FiniteSets, TLC

VARIABLES
    pc,                \* position of the detection run
    user_preferences,  \* DeforestationDetection.user_preferences
    stats,             \* the provider's answers to the analyzer's reductions
    before_indices,    \* NDVI, EVI, NDMI, NBR of the before raster at the pixel
    after_indices,     \* the same for the after raster
    period,            \* the before/after periods of a dated run
    adaptive_params,   \* DeforestationDetection.adaptive_params
    locals,            \* the rasters detect_change has computed so far
    change_image,      \* the bands of the image the run returns
    month_factor,      \* the factor the calendar-month step multiplied on
    history            \* the stages run so far, in order

vars == <<pc, user_preferences, stats, before_indices, after_indices, period,
          adaptive_params, locals, change_image, month_factor, history>>

----------------------------------------------------------------------------
(* Fixed-point arithmetic *)

One == 10 * 1000

Max(a, b) == IF a >= b THEN a ELSE b

Min(a, b) == IF a <= b THEN a ELSE b

\* ee.Image.clamp / Python max(lo, min(hi, x))
Clamp(x, lo, hi) == Max(lo, Min(hi, x))

\* x / d for d > 0, rounded to the nearest integer (halves upward)
RoundDiv(x, d) == (2 * x + d) \div (2 * d)

\* a * b
Mul(a, b) == RoundDiv(a * b, One)

\* a / b; ee.Image.divide returns 0 where the divisor is 0
Div(a, b) ==
    IF b = 0 THEN 0
    ELSE IF b > 0 THEN RoundDiv(a * One, b)
    ELSE RoundDiv((0 - a) * One, 0 - b)

\* a boolean raster as the number it multiplies with
Bit(b) == IF b THEN 1 ELSE 0

Contains(seq, w) == \E i \in 1..Len(seq) : seq[i] = w

\* dict.get(key, default)
Get(d, key, default) == IF key \in DOMAIN d THEN d[key] ELSE default

----------------------------------------------------------------------------
(* Data Characteristics Analyzer *)

\* A vegetation_type is the sequence of the words its name joins with "_".
VegetationDistribution(veg) ==
    IF ~veg.ok
    THEN [density_category |-> <<"unknown">>,
          base_threshold |-> 800,               \* 0.08
          sensitivity_multiplier |-> 11000]     \* 1.1
    ELSE
    LET ndvi_mean == veg.ndvi_mean
        ndvi_std == veg.ndvi_std
        vegetation_range == veg.ndvi_p90 - veg.ndvi_p10
        c0 == IF ndvi_mean > 6500 THEN <<<<"dense", "forest">>, 1000, 9000>>
              ELSE IF ndvi_mean > 4500 THEN <<<<"moderate", "forest">>, 800, 10000>>
              ELSE IF ndvi_mean > 3000 THEN <<<<"woodland", "savanna">>, 600, 12000>>
              ELSE IF ndvi_mean > 2000 THEN <<<<"sparse", "vegetation">>, 400, 14000>>
              ELSE IF ndvi_mean > 1500
                   THEN <<<<"very", "sparse", "vegetation">>, 300, 16000>>
              ELSE <<<<"low", "vegetation">>, 200, 18000>>
        \* dry/seasonal forest adaptation
        dry == ndvi_mean < 3500 /\ vegetation_range < 4000
        c1 == IF dry
              THEN <<c0[1] \o <<"dry", "adapted">>,
                     Max(250, Mul(c0[2], 7000)),
                     Min(20000, Mul(c0[3], 13000))>>
              ELSE c0
        \* heterogeneous landscape, else degraded/recovering forest
        heterogeneity_factor == Div(ndvi_std, Max(ndvi_mean, 1000))
        c2 == IF heterogeneity_factor > 6000
              THEN <<c1[1] \o <<"heterogeneous">>,
                     Min(1200, Mul(c1[2], 11000)),
                     Max(8000, Mul(c1[3], 9500))>>
              ELSE IF ndvi_mean > 2500 /\ ndvi_mean < 5000 /\ ndvi_std > 1500
              THEN <<c1[1] \o <<"recovering">>,
                     Mul(c1[2], 8500),
                     Mul(c1[3], 11000)>>
              ELSE c1
        \* data quality indicators
        c3 == IF veg.ndvi_p5 < -2000 \/ veg.ndvi_p95 > 9500
              THEN <<c2[1], Min(1500, Mul(c2[2], 12000)), Max(7000, Mul(c2[3], 9000))>>
              ELSE c2
    IN  [density_category |-> c3[1],
         base_threshold |-> Max(200, Min(1500, c3[2])),
         sensitivity_multiplier |-> Max(7000, Min(20000, c3[3]))]

SeasonalContext(sea) ==
    IF ~sea.ok
    THEN [seasonal_risk |-> "unknown", false_positive_factor |-> 8000]
    ELSE IF sea.change_median > 2000 \/ sea.change_p90 > 5000
    THEN [seasonal_risk |-> "high", false_positive_factor |-> 6000]
    ELSE IF sea.change_median > 1000
    THEN [seasonal_risk |-> "moderate", false_positive_factor |-> 8000]
    ELSE [seasonal_risk |-> "low", false_positive_factor |-> 9500]

\* latitude and longitude in whole degrees
GeographicContext(geo) ==
    IF ~geo.ok
    THEN [region_type |-> "unknown", climate_factor |-> 10000]
    ELSE IF 6 <= geo.latitude /\ geo.latitude <= 37
            /\ 68 <= geo.longitude /\ geo.longitude <= 97
    THEN IF geo.latitude > 30
         THEN [region_type |-> "himalayan", climate_factor |-> 9000]
         ELSE IF geo.latitude < 15
         THEN [region_type |-> "tropical", climate_factor |-> 11000]
         ELSE [region_type |-> "subtropical", climate_factor |-> 10000]
    ELSE [region_type |-> "other", climate_factor |-> 10000]

DataQuality(cnt) ==
    IF ~cnt.ok
    THEN [quality_score |-> "unknown", confidence_factor |-> 8000]
    ELSE LET min_count == Min(cnt.before_count, cnt.after_count)
         IN  IF min_count > 1000
             THEN [quality_score |-> "high", confidence_factor |-> 10000]
             ELSE IF min_count > 100
             THEN [quality_score |-> "moderate", confidence_factor |-> 8000]
             ELSE [quality_score |-> "low", confidence_factor |-> 6000]

\* prefs is a well-formed preferences dict here
ProcessUserPreferences(prefs) ==
    LET sensitivity_level == Get(prefs, "sensitivity", "balanced")
        false_positive_tolerance == Get(prefs, "false_positive_tolerance", "moderate")
    IN  [sensitivity_level |-> sensitivity_level,
         sensitivity_multiplier |->
            IF sensitivity_level = "high" THEN 13000
            ELSE IF sensitivity_level = "conservative" THEN 7000
            ELSE 10000,
         fp_factor |->
            IF false_positive_tolerance = "low" THEN 6000
            ELSE IF false_positive_tolerance = "high" THEN 9000
            ELSE 7500]

\* the combination without its range limits
CalculateAdaptiveParametersUnclamped(vegetation_stats, seasonal_context, geographic_context, data_quality, user_context) ==
    [vegetation_threshold |->
        Mul(vegetation_stats.base_threshold, data_quality.confidence_factor),
     sensitivity_multiplier |->
        Mul(Mul(vegetation_stats.sensitivity_multiplier,
                geographic_context.climate_factor),
            user_context.sensitivity_multiplier),
     false_positive_factor |->
        Mul(seasonal_context.false_positive_factor, user_context.fp_factor),
     confidence_level |-> data_quality.confidence_factor,
     analysis_summary |->
        [vegetation_type |-> vegetation_stats.density_category,
         seasonal_risk |-> seasonal_context.seasonal_risk,
         region_type |-> geographic_context.region_type,
         data_quality |-> data_quality.quality_score,
         user_preference |-> user_context.sensitivity_level]]

CalculateAdaptiveParameters(vegetation_stats, seasonal_context, geographic_context, data_quality, user_context) ==
    LET confidence_factor == data_quality.confidence_factor
        final_vegetation_threshold ==
            Mul(vegetation_stats.base_threshold, confidence_factor)
        final_sensitivity_multiplier ==
            Mul(Mul(vegetation_stats.sensitivity_multiplier,
                    geographic_context.climate_factor),
                user_context.sensitivity_multiplier)
        final_fp_factor ==
            Mul(seasonal_context.false_positive_factor, user_context.fp_factor)
    IN  [vegetation_threshold |-> Max(300, Min(2000, final_vegetation_threshold)),
         sensitivity_multiplier |-> Max(5000, Min(20000, final_sensitivity_multiplier)),
         false_positive_factor |-> Max(4000, Min(9500, final_fp_factor)),
         confidence_level |-> confidence_factor,
         analysis_summary |->
            [vegetation_type |-> vegetation_stats.density_category,
             seasonal_risk |-> seasonal_context.seasonal_risk,
             region_type |-> geographic_context.region_type,
             data_quality |-> data_quality.quality_score,
             user_preference |-> user_context.sensitivity_level]]

FallbackParameters ==
    [vegetation_threshold |-> 1200,
     sensitivity_multiplier |-> 10000,
     false_positive_factor |-> 8000,
     confidence_level |-> 8000,
     analysis_summary |->
        [vegetation_type |-> <<"unknown">>,
         seasonal_risk |-> "unknown",
         region_type |-> "unknown",
         data_quality |-> "unknown",
         user_preference |-> "balanced"]]

\* the analyzer, were it to answer any failing sub-step with the fallback
AnalyzeFallbackOnAnyFailure(st, prefs) ==
    IF ~prefs.well_formed
       \/ ~st.vegetation.ok \/ ~st.seasonal.ok \/ ~st.centroid.ok \/ ~st.counts.ok
    THEN FallbackParameters
    ELSE CalculateAdaptiveParameters(
            VegetationDistribution(st.vegetation),
            SeasonalContext(st.seasonal),
            GeographicContext(st.centroid),
            DataQuality(st.counts),
            ProcessUserPreferences(prefs.dict))

\* The four sub-steps catch their own exceptions; one raised by the
\* preference step (a preferences object that is no dict) reaches the
\* handler of analyze_data_characteristics.
AnalyzeDataCharacteristics(st, prefs) ==
    IF ~prefs.well_formed
    THEN FallbackParameters
    ELSE CalculateAdaptiveParameters(
            VegetationDistribution(st.vegetation),
            SeasonalContext(st.seasonal),
            GeographicContext(st.centroid),
            DataQuality(st.counts),
            ProcessUserPreferences(prefs.dict))

\* DeforestationDetection.__init__
InitialParams ==
    [vegetation_thresholds |-> <<>>,
     seasonal_factors |-> <<>>,
     regional_multipliers |-> <<>>,
     confidence_levels |-> <<>>]

----------------------------------------------------------------------------
(* Primary Change Scorer.  b and a are the before and after index values   *)
(* at the pixel, p the adaptive parameters the scorer reads.                *)

SensitivityOf(p) == Get(p, "sensitivity_multiplier", 10000)

ThresholdOf(p) == Get(p, "vegetation_threshold", 1200)

NdviChange(b, a) == b.NDVI - a.NDVI

EviChange(b, a) == b.EVI - a.EVI

NdmiChange(b, a) == b.NDMI - a.NDMI

NbrChange(b, a) == b.NBR - a.NBR

\* only positive changes (vegetation loss)
NdviDecrease(b, a) == Clamp(NdviChange(b, a), 0, One)

AbsoluteScore(b, a, p) ==
    Clamp(Mul(NdviDecrease(b, a), Mul(18000, SensitivityOf(p))), 0, One)

\* the relative change taken over the after value
RelativeScoreOverAfter(b, a, p) ==
    LET relative_ndvi_change == Clamp(Div(NdviChange(b, a), a.NDVI + 100), 0, One)
    IN  Clamp(Mul(relative_ndvi_change, Mul(14000, SensitivityOf(p))), 0, One)

RelativeScore(b, a, p) ==
    LET relative_ndvi_change == Clamp(Div(NdviChange(b, a), b.NDVI + 100), 0, One)
    IN  Clamp(Mul(relative_ndvi_change, Mul(14000, SensitivityOf(p))), 0, One)

NbrScore(b, a, p) ==
    Clamp(Mul(NbrChange(b, a), Mul(17000, SensitivityOf(p))), 0, One)

\* the blend without the NBR support
PrimaryBlendWithoutNbr(b, a, p) ==
    Mul(AbsoluteScore(b, a, p), 4000) + Mul(RelativeScore(b, a, p), 3000)

\* primary_score: NDVI-based with NBR support
PrimaryBlend(b, a, p) ==
    Mul(AbsoluteScore(b, a, p), 4000) + Mul(RelativeScore(b, a, p), 3000)
        + Mul(NbrScore(b, a, p), 3000)

ConsistencyCheck(b, a) ==
    /\ NdviDecrease(b, a) > 500
    /\ EviChange(b, a) > 300
    /\ (NdmiChange(b, a) > -1000 \/ NbrChange(b, a) > 300)

\* secondary_score: the blend gated by the multi-index consensus
SecondaryScore(b, a, p) == PrimaryBlend(b, a, p) * Bit(ConsistencyCheck(b, a))

NegativeNdviMask(b) == b.NDVI < 500

LowNdviMask(b, p) == b.NDVI < Mul(ThresholdOf(p), 3000)

UltraDegradedBaseline(b, a) ==
    /\ b.NDVI > -5000
    /\ b.NDVI < 500
    /\ (EviChange(b, a) > 80 \/ NbrChange(b, a) > 150)

EviDegradationBaseline(b, a) ==
    /\ b.EVI > 300
    /\ EviChange(b, a) > 80
    /\ b.NDVI < 1000

NbrDegradationBaseline(b, a) ==
    /\ b.NBR > -1000
    /\ NbrChange(b, a) > 150
    /\ b.NDVI < 1500

DegradedAreasBaseline(b, a) ==
    \/ UltraDegradedBaseline(b, a)
    \/ EviDegradationBaseline(b, a)
    \/ NbrDegradationBaseline(b, a)

\* the dense baseline starting at the threshold itself
DenseBaselineAtThreshold(b, a, p) ==
    /\ b.NDVI > ThresholdOf(p)
    /\ a.NDVI < b.NDVI
    /\ ~NegativeNdviMask(b)

DenseForestBaseline(b, a, p) ==
    /\ b.NDVI > Mul(ThresholdOf(p), 15000)
    /\ a.NDVI < b.NDVI
    /\ ~NegativeNdviMask(b)

\* the moderate baseline without its upper limit
ModerateBaselineUnlimited(b, a, p) ==
    /\ b.NDVI > ThresholdOf(p)
    /\ a.NDVI < b.NDVI
    /\ ~NegativeNdviMask(b)

ModerateVegetationBaseline(b, a, p) ==
    /\ b.NDVI > ThresholdOf(p)
    /\ b.NDVI <= Mul(ThresholdOf(p), 15000)
    /\ a.NDVI < b.NDVI
    /\ ~NegativeNdviMask(b)

StandardSparseBaseline(b, a, p) ==
    /\ b.NDVI > Mul(ThresholdOf(p), 5000)
    /\ b.NDVI <= ThresholdOf(p)
    /\ NdviChange(b, a) > 500
    /\ ~NegativeNdviMask(b)

SparseVegetationBaseline(b, a, p) ==
    StandardSparseBaseline(b, a, p) \/ DegradedAreasBaseline(b, a)

\* the dense regime scored from the ungated blend
DenseForestScoreUngated(b, a, p) ==
    Mul(PrimaryBlend(b, a, p), 8000) * Bit(DenseForestBaseline(b, a, p))

DenseForestScore(b, a, p) ==
    Mul(SecondaryScore(b, a, p), 8000) * Bit(DenseForestBaseline(b, a, p))

ModerateVegetationScore(b, a, p) ==
    Mul(PrimaryBlend(b, a, p), 9000) * Bit(ModerateVegetationBaseline(b, a, p))

\* the mask of the amplified NDVI loss without its lower NDVI limit
StandardSparseMaskUnlimited(b, a, p) == SparseVegetationBaseline(b, a, p)

\* the mask under which the amplified NDVI loss is taken
StandardSparseMask(b, a, p) ==
    SparseVegetationBaseline(b, a, p) /\ ~NegativeNdviMask(b)

StandardSparseScore(b, a, p) ==
    Clamp(Mul(NdviDecrease(b, a), Mul(20000, SensitivityOf(p))), 0, One)
        * Bit(StandardSparseMask(b, a, p))

DegradedConsensusScore(b, a, p) ==
    LET evi_score ==
            Clamp(Mul(EviChange(b, a), Mul(50000, SensitivityOf(p))), 0, One)
        ndmi_loss_score ==
            Clamp(Mul(NdmiChange(b, a), Mul(45000, SensitivityOf(p))), 0, One)
        nbr_loss_score ==
            Clamp(Mul(NbrChange(b, a), Mul(48000, SensitivityOf(p))), 0, One)
    IN  Mul(evi_score, 4000) + Mul(ndmi_loss_score, 3000) + Mul(nbr_loss_score, 3000)

\* the mask under which the degraded-area consensus is taken
DegradedAreasMask(b, a, p) ==
    SparseVegetationBaseline(b, a, p) /\ (NegativeNdviMask(b) \/ LowNdviMask(b, p))

DegradedAreasScore(b, a, p) ==
    DegradedConsensusScore(b, a, p) * Bit(DegradedAreasMask(b, a, p))

SparseVegetationScore(b, a, p) ==
    Max(StandardSparseScore(b, a, p), DegradedAreasScore(b, a, p))

AnyBaseline(b, a, p) ==
    \/ DenseForestBaseline(b, a, p)
    \/ ModerateVegetationBaseline(b, a, p)
    \/ SparseVegetationBaseline(b, a, p)

StrictFallbackCondition(b, a, p) ==
    /\ ~AnyBaseline(b, a, p)
    /\ NdviChange(b, a) > 800
    /\ EviChange(b, a) > 500
    /\ b.NDVI > 500

\* the fallback score without its cap
StrictFallbackScoreUncapped(b, a, p) ==
    Clamp(Mul(NdviDecrease(b, a), 12000), 0, One)
        * Bit(StrictFallbackCondition(b, a, p))

StrictFallbackScore(b, a, p) ==
    Clamp(Mul(NdviDecrease(b, a), 12000), 0, 3000)
        * Bit(StrictFallbackCondition(b, a, p))

PrimaryScore(b, a, p) ==
    Clamp(Max(Max(Max(DenseForestScore(b, a, p), ModerateVegetationScore(b, a, p)),
                  SparseVegetationScore(b, a, p)),
              StrictFallbackScore(b, a, p)),
          0, One)

----------------------------------------------------------------------------
(* Seasonal Filter (index-ratio part) *)

PotentialAgriculture(b, a) ==
    b.NDVI < 4000 /\ a.NDVI < 1500 /\ NdviChange(b, a) > 2500

SeasonalDeciduous(b, a) ==
    /\ b.NDVI > 3000 /\ b.NDVI < 7000
    /\ a.NDVI > 2000 /\ a.NDVI < 4000
    /\ NdviChange(b, a) > 2000 /\ NdviChange(b, a) < 5000
    /\ EviChange(b, a) > 1000 /\ EviChange(b, a) < 3000

InconsistentChange(b, a) ==
    \/ (NdviChange(b, a) > 4000 /\ EviChange(b, a) < 1500)
    \/ (EviChange(b, a) > 4000 /\ NdviChange(b, a) < 1500)

LikelyFalsePositive(score, b, a) ==
    \/ PotentialAgriculture(b, a)
    \/ (SeasonalDeciduous(b, a) /\ score <= 4000)
    \/ InconsistentChange(b, a)

\* the filter with the weak band's factor in every band
SeasonalFilteringUniform(score, b, a) ==
    Mul(score, Clamp(Bit(LikelyFalsePositive(score, b, a)) * (-4000) + One, 6000, One))

SeasonalFiltering(score, b, a) ==
    LET fp == Bit(LikelyFalsePositive(score, b, a))
        strong_factor == Clamp(fp * (-1000) + One, 9000, One)
        moderate_factor == Clamp(fp * (-2000) + One, 8000, One)
        weak_factor == Clamp(fp * (-4000) + One, 6000, One)
    IN  Bit(score > 7000) * Mul(score, strong_factor)
        + Bit(score > 4000 /\ score <= 7000) * Mul(score, moderate_factor)
        + Bit(score <= 4000) * Mul(score, weak_factor)

----------------------------------------------------------------------------
(* False-Positive Filter Cascade *)

FalsePositiveFactorOf(p) == Get(p, "false_positive_factor", 8000)

\* the gate without its forest-priority alternative
VegetationBaselineMeaningfulOnly(b) ==
    /\ b.NDVI > 1000
    /\ (b.EVI > 500 \/ b.NDMI > -1500 \/ b.NDVI > 1500
            \/ (b.EVI > 1000 /\ b.NBR > 500))
    /\ b.NDVI > -3000 /\ b.NDVI > -1000 /\ b.NDMI > -4000

\* the gate with forest-priority areas decided by NBR alone
VegetationBaselineForestByNbr(b) ==
    VegetationBaselineMeaningfulOnly(b) \/ b.NBR > 1000

VegetationBaselineFilter(b) ==
    LET basic_vegetation == b.NDVI > 1000
        active_vegetation == b.EVI > 500
        moist_vegetation == b.NDMI > -1500
        not_water == b.NDVI > -3000
        not_bare_rock == b.NDVI > -1000
        not_extremely_dry == b.NDMI > -4000
        forest_like_structure == b.NDVI > 1500 \/ (b.EVI > 1000 /\ b.NBR > 500)
        meaningful_vegetation ==
            /\ basic_vegetation
            /\ (active_vegetation \/ moist_vegetation \/ forest_like_structure)
            /\ not_water /\ not_bare_rock /\ not_extremely_dry
        forest_priority_areas == b.NDVI > 800 /\ b.NBR > 1000
    IN  meaningful_vegetation \/ forest_priority_areas

\* ndvi_decreased: the direction gate
NdviDecreased(b, a) == b.NDVI > a.NDVI

BasicFilter(b, a) == VegetationBaselineFilter(b) /\ NdviDecreased(b, a)

ObviousSeasonal(b, a) ==
    /\ b.NDVI > 4000
    /\ a.NDVI > 2500
    /\ NdviChange(b, a) > 1500 /\ NdviChange(b, a) < 3500
    /\ Div(EviChange(b, a), NdviChange(b, a) + 100) < 7000
    /\ NbrChange(b, a) < 2000

ObviousAgriculture(b, a) ==
    /\ b.NDVI > 2000 /\ b.NDVI < 5000
    /\ a.NDVI < 1000
    /\ NdviChange(b, a) > 3500
    /\ b.NDMI < 2000

CloudShadowArtifact(b, a) ==
    /\ NdviChange(b, a) > 4000
    /\ EviChange(b, a) > 6000
    /\ NdmiChange(b, a) > 1500
    /\ NbrChange(b, a) > 2500

ClearDeforestation(b, a) ==
    LET major_forest_loss ==
            b.NDVI > 5000 /\ a.NDVI < 2500 /\ NbrChange(b, a) > 3000
        moderate_clearing ==
            NdviChange(b, a) > 2500 /\ NdmiChange(b, a) > 1000 /\ a.NDVI < 3000
    IN  major_forest_loss \/ moderate_clearing

SeasonalPenalty(b, a, p) ==
    LET strength == Mul(One - FalsePositiveFactorOf(p), 1500)
    IN  Clamp(Bit(ObviousSeasonal(b, a)) * (0 - strength) + One, 8500, One)

AgriculturalPenalty(b, a, p) ==
    LET strength == Mul(One - FalsePositiveFactorOf(p), 2000)
    IN  Clamp(Bit(ObviousAgriculture(b, a)) * (0 - strength) + One, 8000, One)

\* a cloud penalty that removes the score
CloudPenaltyRemoving(b, a, p) ==
    Clamp(Bit(CloudShadowArtifact(b, a)) * (0 - One) + One, 0, One)

CloudPenalty(b, a, p) ==
    LET strength == Mul(One - FalsePositiveFactorOf(p), 2500)
    IN  Clamp(Bit(CloudShadowArtifact(b, a)) * (0 - strength) + One, 7500, One)

DeforestationBoost(b, a, p) ==
    LET strength == 3000 + Mul(One - FalsePositiveFactorOf(p), 2000)
    IN  Clamp(Bit(ClearDeforestation(b, a)) * strength + One, One, 15000)

\* nb is the provider's answer to reduceNeighborhood: the scores of the
\* eight neighbours summed, or a failure (the except branch)
SpatialBoost(score, nb) ==
    IF ~nb.ok THEN One
    ELSE LET spatial_mean == RoundDiv(score + nb.sum, 9)
         IN  Clamp(Bit(spatial_mean > 3000) * 1500 + One, One, 11500)

Stage2Filtered(score, b, a, p) ==
    Mul(Mul(Mul(score * Bit(BasicFilter(b, a)), SeasonalPenalty(b, a, p)),
            AgriculturalPenalty(b, a, p)),
        CloudPenalty(b, a, p))

FinalFiltered(score, b, a, p, nb) ==
    Mul(Mul(Stage2Filtered(score, b, a, p), DeforestationBoost(b, a, p)),
        SpatialBoost(score, nb))

PreservedHighConfidence(score, b, a) ==
    score * Bit(score > 7000) * Bit(BasicFilter(b, a))

\* the cascade without its final clamp
FalsePositiveFiltersUnclamped(score, b, a, p, nb) ==
    Max(FinalFiltered(score, b, a, p, nb), PreservedHighConfidence(score, b, a))

\* the cascade without the preservation of high-confidence scores
FalsePositiveFiltersWithoutPreservation(score, b, a, p, nb) ==
    Clamp(FinalFiltered(score, b, a, p, nb), 0, One)

FalsePositiveFilters(score, b, a, p, nb) ==
    Clamp(Max(FinalFiltered(score, b, a, p, nb), PreservedHighConfidence(score, b, a)),
          0, One)

----------------------------------------------------------------------------
(* Thresholder of detect_change *)

DetectionThreshold(p) ==
    LET analysis_summary == Get(p, "analysis_summary", <<>>)
        vegetation_type == Get(analysis_summary, "vegetation_type", <<"unknown">>)
    IN  IF Contains(vegetation_type, "dense") THEN 1200
        ELSE IF Contains(vegetation_type, "sparse") \/ Contains(vegetation_type, "dry")
        THEN 600
        ELSE 800

ThresholdedChange(filtered_score, p) ==
    Bit(filtered_score >= DetectionThreshold(p))

----------------------------------------------------------------------------
(* Seasonal Filter (calendar-month part) *)

monsoon_months == {6, 7, 8, 9}

post_monsoon_months == {10, 11}

winter_months == {12, 1, 2}

pre_monsoon_months == {3, 4, 5}

extreme_seasonal_combinations ==
    {<<2, 7>>, <<3, 8>>, <<4, 9>>, <<1, 6>>, <<12, 7>>, <<11, 8>>}

\* the transitions with a stronger wet->dry reduction
TransitionFactorStrongSenescence(before_month, after_month) ==
    IF before_month \in winter_months /\ after_month \in pre_monsoon_months THEN 9500
    ELSE IF before_month \in pre_monsoon_months /\ after_month \in monsoon_months
    THEN 9300
    ELSE IF before_month \in monsoon_months /\ after_month \in post_monsoon_months
    THEN 8000
    ELSE IF before_month \in post_monsoon_months /\ after_month \in winter_months
    THEN 9500
    ELSE One

TransitionFactor(before_month, after_month) ==
    IF before_month \in winter_months /\ after_month \in pre_monsoon_months THEN 9500
    ELSE IF before_month \in pre_monsoon_months /\ after_month \in monsoon_months
    THEN 9300
    ELSE IF before_month \in monsoon_months /\ after_month \in post_monsoon_months
    THEN 9000
    ELSE IF before_month \in post_monsoon_months /\ after_month \in winter_months
    THEN 9500
    ELSE One

\* reduceRegion names its outputs <band>_<reducer>; a name is the sequence
\* of the words it joins with "_"
ScoreStatsDict(band, st) ==
    [k \in {band \o <<"max">>, band \o <<"mean">>, band \o <<"min">>} |->
        IF k = band \o <<"max">> THEN st.max
        ELSE IF k = band \o <<"mean">> THEN st.mean
        ELSE st.min]

\* score_stats.get(f'{score_band_name}_{which}', 0), where score_band_name
\* is the first key cut at its first "_"
ScoreStat(band, st, which) ==
    LET score_stats == ScoreStatsDict(band, st)
        first_key == CHOOSE k \in DOMAIN score_stats : TRUE
        score_band_name == <<Head(first_key)>>
    IN  Get(score_stats, score_band_name \o <<which>>, 0)

\* The factors of the three confidence bands, or raised: an exception that
\* reaches the outer handler, which returns the score as it was.
MonthAwareFactors(band, per, st) ==
    IF ~per.parseable THEN [raised |-> TRUE]
    ELSE
    LET before_month == per.before_month
        after_month == per.after_month
        f0 == TransitionFactor(before_month, after_month)
        avg_score == ScoreStat(band, st, "mean")
        max_score == ScoreStat(band, st, "max")
        \* the statistics block; its handler leaves avg_score unbound
        f1 == IF ~st.ok THEN Max(f0, 9000)
              ELSE IF avg_score > 6000 \/ max_score > 8000 THEN Max(f0, 9500)
              ELSE IF avg_score > 4000 THEN Max(f0, 9000)
              ELSE f0
        extreme == <<before_month, after_month>> \in extreme_seasonal_combinations
        f2 == IF ~extreme THEN f1
              ELSE IF avg_score <= 3000 THEN Min(f1, 8500)
              ELSE Max(f1, 9200)
    IN  IF extreme /\ ~st.ok THEN [raised |-> TRUE]
        ELSE [raised |-> FALSE,
              high |-> Max(f2, 9500),
              medium |-> f2,
              low |-> Min(f2, 8500)]

\* the factor the graduated where-chain multiplies on a pixel of this score
MonthAwareFactorAt(score, band, per, st) ==
    LET f == MonthAwareFactors(band, per, st)
    IN  IF f.raised THEN One
        ELSE IF score > 7000 THEN f.high
        ELSE IF score > 4000 THEN f.medium
        ELSE f.low

MonthAwareFiltering(score, band, per, st) ==
    IF MonthAwareFactors(band, per, st).raised THEN score
    ELSE Mul(score, MonthAwareFactorAt(score, band, per, st))

----------------------------------------------------------------------------
(* Inputs of a detection run *)

\* index values at the pixel, chosen on both sides of the code's cuts
NdviBeforeSamples == {400, 900, 1300, 3500, 5000, 7500}

\* the number of further after-NDVI levels, 0.1 apart below 0.6
AfterLevels == 1

NdviAfterSamples ==
    {-1000, 300, 1200, 2600, 7400} \cup {6000 - 1000 * k : k \in 1..AfterLevels}

EviBeforeSamples == {200, 3000, 9000}

EviAfterSamples == {100, 1500, 2700}

NdmiBeforeSamples == {-5000, 1000}

NdmiAfterSamples == {-1000, 1000}

NbrBeforeSamples == {-2000, 800, 5000}

NbrAfterSamples == {600, 1000}

BeforePixels ==
    [NDVI : NdviBeforeSamples, EVI : EviBeforeSamples,
     NDMI : NdmiBeforeSamples, NBR : NbrBeforeSamples]

AfterPixels ==
    [NDVI : NdviAfterSamples, EVI : EviAfterSamples,
     NDMI : NdmiAfterSamples, NBR : NbrAfterSamples]

Failed == [ok |-> FALSE]

\* answers to the reductions of _analyze_vegetation_distribution
VegetationAnswers ==
    {[ok |-> TRUE, ndvi_mean |-> m, ndvi_std |-> sd, ndvi_p10 |-> 1000,
      ndvi_p90 |-> 1000 + r, ndvi_p5 |-> q[1], ndvi_p95 |-> q[2]] :
        m \in {7000, 5000, 3200, 2800, 1800, 1000},
        sd \in {500, 1600, 4500},
        r \in {3000, 6000},
        q \in {<<500, 8000>>, <<-3000, 8000>>}}
    \cup {Failed}

SeasonalAnswers ==
    {[ok |-> TRUE, change_median |-> c[1], change_p90 |-> c[2]] :
        c \in {<<2500, 6000>>, <<1500, 3000>>, <<0, 1000>>}}
    \cup {Failed}

CentroidAnswers ==
    {[ok |-> TRUE, latitude |-> c[1], longitude |-> c[2]] :
        c \in {<<32, 77>>, <<10, 77>>, <<22, 80>>, <<45, 10>>}}
    \cup {Failed}

CountAnswers ==
    {[ok |-> TRUE, before_count |-> c[1], after_count |-> c[2]] :
        c \in {<<2000, 1500>>, <<2000, 500>>, <<50, 2000>>}}
    \cup {Failed}

PreferenceDicts ==
    [sensitivity : {"high", "balanced", "conservative"},
     false_positive_tolerance : {"low", "moderate", "high"}]

Preferences ==
    {[well_formed |-> TRUE, dict |-> d] : d \in PreferenceDicts}
    \cup {[well_formed |-> FALSE]}

AnalyzerAnswers ==
    [vegetation : VegetationAnswers, seasonal : SeasonalAnswers,
     centroid : CentroidAnswers, counts : CountAnswers]

Undated == [dated |-> FALSE]

Unparseable == [dated |-> TRUE, parseable |-> FALSE]

Dated(before_month, after_month) ==
    [dated |-> TRUE, parseable |-> TRUE,
     before_month |-> before_month, after_month |-> after_month]

AllPeriods ==
    {Dated(bm, am) : bm \in 1..12, am \in 1..12} \cup {Unparseable, Undated}

\* answers to reduceNeighborhood in the cascade
NeighbourAnswers ==
    {[ok |-> TRUE, sum |-> n] : n \in {0, 20000, 80000}} \cup {Failed}

\* answers to the reduceRegion of the calendar-month step
ScoreStatsAnswers ==
    {[ok |-> TRUE, min |-> 0, mean |-> 2000, max |-> 5000],
     [ok |-> TRUE, min |-> 1000, mean |-> 7000, max |-> 9000],
     Failed}

----------------------------------------------------------------------------
(* The detection run: detect_change, then the calendar-month step of       *)
(* detect_change_with_dates when the run is dated.                          *)

Stage(name) == history' = Append(history, name)

\* cases: pairs of the analyzer's answers and the caller's preferences
Requests(cases, befores, afters, periods) ==
    /\ \E c \in cases : stats = c[1] /\ user_preferences = c[2]
    /\ before_indices \in befores
    /\ after_indices \in afters
    /\ period \in periods

Constructed ==
    /\ pc = "start"
    /\ adaptive_params = InitialParams
    /\ locals = <<>>
    /\ change_image = <<>>
    /\ month_factor = One
    /\ history = <<>>

Analyze ==
    /\ pc = "start"
    /\ adaptive_params' = AnalyzeDataCharacteristics(stats, user_preferences)
    /\ pc' = "analyzed"
    /\ Stage("analyzer")
    /\ UNCHANGED <<user_preferences, stats, before_indices, after_indices, period,
                   locals, change_image, month_factor>>

Score ==
    /\ pc = "analyzed"
    /\ locals' = [deforestation_score |->
                    PrimaryScore(before_indices, after_indices, adaptive_params)]
    /\ pc' = "scored"
    /\ Stage("scorer")
    /\ UNCHANGED <<user_preferences, stats, before_indices, after_indices, period,
                   adaptive_params, change_image, month_factor>>

SeasonalFilter ==
    /\ pc = "scored"
    /\ locals' = locals @@
            [seasonal_filtered_score |->
                SeasonalFiltering(locals.deforestation_score,
                                  before_indices, after_indices)]
    /\ pc' = "seasonal"
    /\ Stage("seasonal")
    /\ UNCHANGED <<user_preferences, stats, before_indices, after_indices, period,
                   adaptive_params, change_image, month_factor>>

Cascade ==
    /\ pc = "seasonal"
    /\ \E nb \in NeighbourAnswers :
        locals' = locals @@
            [filtered_score |->
                FalsePositiveFilters(locals.seasonal_filtered_score,
                                     before_indices, after_indices,
                                     adaptive_params, nb)]
    /\ pc' = "cascaded"
    /\ Stage("cascade")
    /\ UNCHANGED <<user_preferences, stats, before_indices, after_indices, period,
                   adaptive_params, change_image, month_factor>>

\* binarization and the assembly of the change image detect_change returns
Threshold ==
    /\ pc = "cascaded"
    /\ LET thresholded_change == ThresholdedChange(locals.filtered_score, adaptive_params)
       IN  /\ locals' = locals @@ [thresholded_change |-> thresholded_change]
           /\ change_image' =
                [deforestation_score |-> locals.deforestation_score,
                 filtered_deforestation_score |-> locals.filtered_score,
                 thresholded_change |-> thresholded_change]
    /\ pc' = "detected"
    /\ Stage("thresholder")
    /\ UNCHANGED <<user_preferences, stats, before_indices, after_indices, period,
                   adaptive_params, month_factor>>

\* detect_change called without dates
Return ==
    /\ pc = "detected"
    /\ ~period.dated
    /\ pc' = "done"
    /\ UNCHANGED <<user_preferences, stats, before_indices, after_indices, period,
                   adaptive_params, locals, change_image, month_factor, history>>

\* the calendar-month step, were the mask taken again from its score
MonthAwareRethresholding ==
    /\ pc = "detected"
    /\ period.dated
    /\ \E st \in ScoreStatsAnswers :
        LET band == <<"filtered", "deforestation", "score">>
            score == change_image.filtered_deforestation_score
            adjusted == MonthAwareFiltering(score, band, period, st)
        IN  /\ month_factor' = MonthAwareFactorAt(score, band, period, st)
            /\ change_image' =
                [change_image EXCEPT
                    !.deforestation_score = adjusted,
                    !.thresholded_change = ThresholdedChange(adjusted, adaptive_params)]
                    @@ [seasonally_filtered_deforestation_score |-> adjusted]
    /\ pc' = "done"
    /\ Stage("calendar")
    /\ UNCHANGED <<user_preferences, stats, before_indices, after_indices, period,
                   adaptive_params, locals>>

\* the rest of detect_change_with_dates
MonthAware ==
    /\ pc = "detected"
    /\ period.dated
    /\ \E st \in ScoreStatsAnswers :
        LET band == <<"filtered", "deforestation", "score">>
            score == change_image.filtered_deforestation_score
            adjusted == MonthAwareFiltering(score, band, period, st)
        IN  /\ month_factor' = MonthAwareFactorAt(score, band, period, st)
            /\ change_image' =
                [change_image EXCEPT !.deforestation_score = adjusted]
                    @@ [seasonally_filtered_deforestation_score |-> adjusted]
    /\ pc' = "done"
    /\ Stage("calendar")
    /\ UNCHANGED <<user_preferences, stats, before_indices, after_indices, period,
                   adaptive_params, locals>>

Next ==
    \/ Analyze
    \/ Score
    \/ SeasonalFilter
    \/ Cascade
    \/ Threshold
    \/ Return
    \/ MonthAware

----------------------------------------------------------------------------
(* Specifications: the same run over three slices of the input space *)

VegetationAnswer(m, sd, r, p5, p95) ==
    [ok |-> TRUE, ndvi_mean |-> m, ndvi_std |-> sd, ndvi_p10 |-> 1000,
     ndvi_p90 |-> 1000 + r, ndvi_p5 |-> p5, ndvi_p95 |-> p95]

SeasonalAnswer(median, p90) == [ok |-> TRUE, change_median |-> median, change_p90 |-> p90]

CentroidAnswer(lat, lon) == [ok |-> TRUE, latitude |-> lat, longitude |-> lon]

CountAnswer(n1, n2) == [ok |-> TRUE, before_count |-> n1, after_count |-> n2]

WellFormed(d) == [well_formed |-> TRUE, dict |-> d]

\* a dense forest analysed on good data, default preferences
DenseCase ==
    <<[vegetation |-> VegetationAnswer(7000, 500, 6000, 500, 8000),
       seasonal |-> SeasonalAnswer(0, 1000),
       centroid |-> CentroidAnswer(22, 80),
       counts |-> CountAnswer(2000, 1500)],
      WellFormed(<<>>)>>

\* a heterogeneous dense forest with suspect percentiles, conservative caller
ConservativeCase ==
    <<[vegetation |-> VegetationAnswer(7000, 4500, 6000, -3000, 8000),
       seasonal |-> SeasonalAnswer(1500, 3000),
       centroid |-> CentroidAnswer(32, 77),
       counts |-> CountAnswer(2000, 1500)],
      WellFormed([sensitivity |-> "conservative", false_positive_tolerance |-> "high"])>>

\* low, dry vegetation on few pixels, sensitive caller
SparseCase ==
    <<[vegetation |-> VegetationAnswer(1000, 500, 3000, 500, 8000),
       seasonal |-> SeasonalAnswer(2500, 6000),
       centroid |-> CentroidAnswer(10, 77),
       counts |-> CountAnswer(50, 2000)],
      WellFormed([sensitivity |-> "high", false_positive_tolerance |-> "low"])>>

\* a preferences object that is no dict: the analyzer falls back
FallbackCase ==
    <<[vegetation |-> Failed, seasonal |-> Failed, centroid |-> Failed,
       counts |-> Failed],
      [well_formed |-> FALSE]>>

RunCases == {DenseCase, ConservativeCase, SparseCase, FallbackCase}

\* every reduction of the analyzer fails, default preferences
DefaultsCase ==
    <<[vegetation |-> Failed, seasonal |-> Failed, centroid |-> Failed,
       counts |-> Failed],
      WellFormed(<<>>)>>

\* The run is dated over every pixel; the undated run, a prefix of it, and
\* a second pair of months are taken over a few pixels.
SideBefores == [NDVI : {1300, 7500}, EVI : {9000}, NDMI : {1000}, NBR : {5000}]

SideAfters == [NDVI : {300, 2600}, EVI : {1500}, NDMI : {-1000}, NBR : {1000}]

Init ==
    /\ Constructed
    /\ \/ Requests(RunCases, BeforePixels, AfterPixels, {Dated(12, 4)})
       \/ Requests(RunCases, SideBefores, SideAfters, {Undated, Dated(5, 5)})

Spec == Init /\ [][Next]_vars

\* every answer of the provider to the analyzer, every preference
InitAnalyzer ==
    /\ Constructed
    /\ Requests((AnalyzerAnswers \X Preferences) \cup RunCases \cup {DefaultsCase},
                SideBefores, {[NDVI |-> 300, EVI |-> 1500, NDMI |-> -1000, NBR |-> 1000]},
                {Dated(12, 4)})

SpecAnalyzer == InitAnalyzer /\ [][Analyze]_vars

\* every pair of months
CalendarBefores == [NDVI : {7500, 5000, 3500}, EVI : {9000, 3000}, NDMI : {1000}, NBR : {5000}]

CalendarAfters == [NDVI : {1200, 2600, 5000}, EVI : {1500}, NDMI : {-1000}, NBR : {1000}]

InitCalendar ==
    /\ Constructed
    /\ Requests({DenseCase, SparseCase}, CalendarBefores, CalendarAfters, AllPeriods)

SpecCalendar == InitCalendar /\ [][Next]_vars

\* pixels of little vegetation and no activity, where no baseline matches
FallbackBefores ==
    [NDVI : {600, 900, 1300}, EVI : {200, 3000}, NDMI : {1000}, NBR : {-2000, 800}]

FallbackAfters ==
    [NDVI : {-2000, -1000, 300, 550}, EVI : {-400, 100}, NDMI : {-1000, 1000},
     NBR : {600, 1000}]

InitFallback ==
    /\ Constructed
    /\ Requests(RunCases, FallbackBefores, FallbackAfters, {Undated, Dated(12, 4)})

SpecFallback == InitFallback /\ [][Next]_vars

\* a moderate forest analysed on good data, default preferences
ModerateCase ==
    <<[vegetation |-> VegetationAnswer(5000, 500, 6000, 500, 8000),
       seasonal |-> SeasonalAnswer(0, 1000),
       centroid |-> CentroidAnswer(22, 80),
       counts |-> CountAnswer(2000, 1500)],
      WellFormed(<<>>)>>

\* pixels of pre-NDVI 0.8 and 0.1 under thresholds from 0.03 to 0.132
DispatchBefores == [NDVI : {8000, 1000}, EVI : {3000}, NDMI : {1000}, NBR : {800}]

DispatchAfters ==
    [NDVI : {7800, 7400, 5000, 800, 400, -2000}, EVI : {100, 2700}, NDMI : {1000},
     NBR : {600, 1000}]

InitDispatch ==
    /\ Constructed
    /\ Requests(RunCases \cup {DefaultsCase, ModerateCase},
                DispatchBefores, DispatchAfters, {Undated, Dated(12, 4)})

SpecDispatch == InitDispatch /\ [][Next]_vars

\* scenario A: a uniform dense forest of NDVI 0.75 cleared to 0.15, NBR down
\* by 0.4 and NDMI by 0.3; EVI, region, pixel counts and caller are open
ScenarioABefores == [NDVI : {7500}, EVI : {5000, 8000}, NDMI : {4000}, NBR : {5000}]

ScenarioAAfters == [NDVI : {1500}, EVI : {1000, 4000, 4800}, NDMI : {1000}, NBR : {1000}]

ScenarioACases ==
    {<<[vegetation |-> VegetationAnswer(7500, 0, 0, 7500, 7500),
        seasonal |-> SeasonalAnswer(6000, 6000),
        centroid |-> c, counts |-> n], prefs>> :
        c \in CentroidAnswers, n \in CountAnswers, prefs \in Preferences}

InitScenarioA ==
    /\ Constructed
    /\ Requests(ScenarioACases, ScenarioABefores, ScenarioAAfters, {Undated, Dated(12, 4)})

SpecScenarioA == InitScenarioA /\ [][Next]_vars

\* scenario B: a uniform moderate forest of NDVI 0.5 seen at 0.35, from
\* December to April, the EVI loss under 0.7 of the NDVI loss and the NBR
\* loss under 0.2; region, pixel counts and caller are open
ScenarioBBefores == [NDVI : {5000}, EVI : {3000}, NDMI : {1000}, NBR : {3000}]

ScenarioBAfters ==
    [NDVI : {3500}, EVI : {2000, 2500, 2800}, NDMI : {500, 1000}, NBR : {1500, 2500}]

ScenarioBCases ==
    {<<[vegetation |-> VegetationAnswer(5000, 0, 0, 5000, 5000),
        seasonal |-> SeasonalAnswer(1500, 1500),
        centroid |-> c, counts |-> n], prefs>> :
        c \in CentroidAnswers, n \in CountAnswers, prefs \in Preferences}

InitScenarioB ==
    /\ Constructed
    /\ Requests(ScenarioBCases, ScenarioBBefores, ScenarioBAfters, {Undated, Dated(12, 4)})

SpecScenarioB == InitScenarioB /\ [][Next]_vars

----------------------------------------------------------------------------
(* Rasters on a bounded grid.  filter_false_positives of the detector and   *)
(* the minimum mapping unit of the system read neighbourhoods and connected *)
(* components, so here a band is the table of its values over the pixels of *)
(* a GridSize x GridSize footprint; there is no data outside the footprint. *)

GridSize == 8

Pixels == (1..GridSize) \X (1..GridSize)

\* the value of a pixel that is masked (outside the range of every band)
masked == 0 - One

\* an ee.Image band held as an explicit table
Raster(f) == f @@ <<>>

\* ee.Kernel.square(radius=1): the 3x3 window round a pixel
kernel_small(p) ==
    (Max(1, p[1] - 1)..Min(GridSize, p[1] + 1))
        \X (Max(1, p[2] - 1)..Min(GridSize, p[2] + 1))

\* ee.Image.gte against a number; a masked pixel stays masked
Gte(img, t) ==
    Raster([p \in Pixels |-> IF img[p] = masked THEN masked ELSE Bit(img[p] >= t)])

\* ee.Image.lt against a number
Lt(img, t) ==
    Raster([p \in Pixels |-> IF img[p] = masked THEN masked ELSE Bit(img[p] < t)])

\* ee.Image.And: masked where either operand is masked
And(x, y) ==
    Raster([p \in Pixels |->
        IF x[p] = masked \/ y[p] = masked THEN masked
        ELSE Bit(x[p] # 0 /\ y[p] # 0)])

\* ee.Image.Or: masked where either operand is masked
Or(x, y) ==
    Raster([p \in Pixels |->
        IF x[p] = masked \/ y[p] = masked THEN masked
        ELSE Bit(x[p] # 0 \/ y[p] # 0)])

\* ee.Image.updateMask: a pixel keeps its value where it had one and the mask
\* is valid and nonzero
UpdateMask(img, m) ==
    Raster([p \in Pixels |->
        IF img[p] = masked \/ m[p] = masked \/ m[p] = 0 THEN masked ELSE img[p]])

\* the pixels of a window that carry data
Valid(img, window) == {q \in window : img[q] # masked}

\* no erosion at all
FocalMinSkipped(img) == img

\* ee.Image.focal_min, one iteration: the least value of the window
focal_min(img) ==
    Raster([p \in Pixels |->
        LET values == {img[q] : q \in Valid(img, kernel_small(p))}
        IN  IF values = {} THEN masked
            ELSE CHOOSE v \in values : \A w \in values : v <= w])

\* ee.Image.focal_max, one iteration: the greatest value of the window
focal_max(img) ==
    Raster([p \in Pixels |->
        LET values == {img[q] : q \in Valid(img, kernel_small(p))}
        IN  IF values = {} THEN masked
            ELSE CHOOSE v \in values : \A w \in values : v >= w])

\* the pixels joined to the seen ones through neighbours of one value
RECURSIVE Flood(_, _, _)
Flood(img, seen, frontier) ==
    IF frontier = {} THEN seen
    ELSE LET reached ==
                {q \in UNION {kernel_small(p) : p \in frontier} :
                    /\ q \notin seen
                    /\ \E p \in frontier : img[q] = img[p]}
         IN  Flood(img, seen \cup reached, reached)

\* the eight-connected patches of equal value that partition the pixels left
RECURSIVE Patches(_, _)
Patches(img, left) ==
    IF left = {} THEN {}
    ELSE LET p == CHOOSE q \in left : TRUE
             patch == Flood(img, {p}, {p})
         IN  {patch} \cup Patches(img, left \ patch)

\* ee.Image.connectedPixelCount(maxSize, eightConnected=True)
connectedPixelCount(img, maxSize) ==
    LET patches == Patches(img, Valid(img, Pixels))
    IN  Raster([p \in Pixels |->
            IF img[p] = masked THEN masked
            ELSE Min(maxSize, Cardinality(CHOOSE c \in patches : p \in c))])

\* ee.Image.constant
Constant(v) == Raster([p \in Pixels |-> v])

\* image.addBands(band.rename(name), None, True)
AddBand(image, name, band) ==
    [b \in DOMAIN image \cup {name} |-> IF b = name THEN band ELSE image[b]]

strong_threshold == 7000

moderate_threshold == 4000

weak_threshold == 1500

final_threshold == 2000

\* the band filter_false_positives takes the score from
ScoreBandLastResult(image) ==
    IF "final_deforestation_score" \in DOMAIN image THEN "final_deforestation_score"
    ELSE "filtered_deforestation_score"

ScoreBand(image) ==
    IF "filtered_deforestation_score" \in DOMAIN image THEN "filtered_deforestation_score"
    ELSE "deforestation_score"

\* the mask of the detections filter_false_positives keeps
CombinedMask(score, edge_mask) ==
    LET strong_mask == Gte(score, strong_threshold)
        moderate_mask == And(Gte(score, moderate_threshold), Lt(score, strong_threshold))
        weak_mask == And(Gte(score, weak_threshold), Lt(score, moderate_threshold))
        strong_processed == focal_max(focal_min(strong_mask))
        moderate_processed == focal_max(focal_min(moderate_mask))
        weak_processed == focal_max(focal_max(focal_min(weak_mask)))
        strong_size_filtered == strong_processed
        moderate_connected == connectedPixelCount(moderate_processed, 256)
        moderate_size_filtered == UpdateMask(moderate_processed, Gte(moderate_connected, 4))
        weak_connected == connectedPixelCount(weak_processed, 256)
        weak_size_filtered == UpdateMask(weak_processed, Gte(weak_connected, 6))
        strong_final == strong_size_filtered
        moderate_final == UpdateMask(moderate_size_filtered, Or(edge_mask, Constant(1)))
        weak_final == UpdateMask(weak_size_filtered, edge_mask)
    IN  Or(Or(strong_final, moderate_final), weak_final)

\* filter_false_positives: the image with the band final_deforestation_score
FilterFalsePositives(image, edge_mask) ==
    LET score == image[ScoreBand(image)]
        combined_mask == CombinedMask(score, edge_mask)
        smart_filtered_score == UpdateMask(score, combined_mask)
        final_mask == Gte(smart_filtered_score, final_threshold)
        final_filtered_score == UpdateMask(smart_filtered_score, final_mask)
    IN  AddBand(image, "final_deforestation_score", final_filtered_score)

\* mmu_thresholds.get(alert_type, 10) for the deforestation detector
mmu_threshold == 15

\* the minimum mapping unit of _apply_advanced_false_positive_filtering
MmuFiltered(image) ==
    LET thresholded == image.thresholded_change
        connected == connectedPixelCount(thresholded, 100)
    IN  UpdateMask(thresholded, Gte(connected, mmu_threshold))

\* the pixels where a band carries data
Support(band) == {p \in Pixels : band[p] # masked}

\* the pixels a binary band marks
Marked(band) == {p \in Pixels : band[p] # masked /\ band[p] # 0}

\* a square of one score on a ground of no change
Block(side, origin, level) ==
    Raster([p \in Pixels |->
        IF p[1] - origin[1] \in 0..(side - 1) /\ p[2] - origin[2] \in 0..(side - 1)
        THEN level ELSE 0])

\* a raster with one pixel set to a score
Paint(img, at, level) == Raster([p \in Pixels |-> IF p = at THEN level ELSE img[p]])

\* scores below and inside each confidence class of the cleaner
ScoreLevels == {1000, 1700, 3000, 5000, 8000}

\* a single pixel up to a block that leaves a margin, along the diagonal
BlockRasters ==
    {Block(t[1], <<t[2], t[2]>>, t[3]) :
        t \in {u \in (1..(GridSize - 2)) \X (1..GridSize) \X ScoreLevels :
                 u[2] + u[1] - 1 <= GridSize}}

\* the ring of pixels round the 3x3 block that starts at the origin
Ring(origin) ==
    {p \in Pixels :
        /\ p[1] - origin[1] \in -1..3
        /\ p[2] - origin[2] \in -1..3
        /\ (p[1] - origin[1] \in {-1, 3} \/ p[2] - origin[2] \in {-1, 3})}

\* a weak 3x3 block with a strong and a moderate pixel side by side at its rim
MixedRasters ==
    {Paint(Paint(Block(3, t[1], t[2]), t[3], 8000), t[4], 5000) :
        t \in {u \in {<<2, 2>>, <<3, 3>>} \X {1700, 3000} \X Pixels \X Pixels :
                 /\ u[3] \in Ring(u[1])
                 /\ u[4] \in Ring(u[1]) \cap kernel_small(u[3])
                 /\ u[4] # u[3]}}

ScoreRasters == BlockRasters \cup MixedRasters

\* ee.Image.constant(1).clip(buffered_aoi).mask(): the AOI reaches well beyond
\* the footprint, or the footprint is the AOI and its outer pixels, whose
\* centres are 5 m from the boundary, fall outside the 15 m buffer
EdgeMasks ==
    {Constant(1),
     Raster([p \in Pixels |->
        Bit(p[1] \in 2..(GridSize - 1) /\ p[2] \in 2..(GridSize - 1))])}

\* the entropy mask of natural forest: every pixel accepted, or one half
NaturalForestAnswers ==
    {Constant(1), Raster([p \in Pixels |-> Bit(2 * p[1] <= GridSize)])}

\* the confidence threshold a caller asks for
UserThresholds == {5000}

\* _detect_changes after the detector has returned: the caller's threshold,
\* filter_false_positives, the clip to the AOI (which holds the footprint)
DetectChanges ==
    /\ pc = "detected"
    /\ \E threshold \in UserThresholds :
        LET thresholded_image == Gte(change_image.deforestation_score, threshold)
            image == AddBand(change_image, "thresholded_change_1", thresholded_image)
        IN  change_image' = FilterFalsePositives(image, stats.edge_mask)
    /\ pc' = "changes"
    /\ Stage("cleaner")
    /\ UNCHANGED <<user_preferences, stats, before_indices, after_indices, period,
                   adaptive_params, locals, month_factor>>

\* filter_false_positives called on the image a call of it returned
FilterAgain ==
    /\ pc = "changes"
    /\ change_image' = FilterFalsePositives(change_image, stats.edge_mask)
    /\ locals' = [filtered_image |-> change_image]
    /\ pc' = "changes again"
    /\ Stage("cleaner")
    /\ UNCHANGED <<user_preferences, stats, before_indices, after_indices, period,
                   adaptive_params, month_factor>>

\* _apply_advanced_false_positive_filtering of the deforestation alert
AdvancedFalsePositiveFiltering ==
    /\ pc = "changes"
    /\ \E natural_forest_mask \in NaturalForestAnswers :
        LET mmu_filtered == MmuFiltered(change_image)
            context_filtered == UpdateMask(mmu_filtered, natural_forest_mask)
        IN  /\ locals' = [mmu_filtered |-> mmu_filtered]
            /\ change_image' = AddBand(change_image, "filtered_change", context_filtered)
    /\ pc' = "filtered"
    /\ Stage("advanced")
    /\ UNCHANGED <<user_preferences, stats, before_indices, after_indices, period,
                   adaptive_params, month_factor>>

NextRaster ==
    \/ DetectChanges
    \/ FilterAgain
    \/ AdvancedFalsePositiveFiltering

\* the detector has returned the image of a score raster
InitCleaner ==
    /\ pc = "detected"
    /\ \E c \in {DenseCase, SparseCase}, edge_mask \in EdgeMasks :
        /\ stats = c[1] @@ [edge_mask |-> edge_mask]
        /\ user_preferences = c[2]
        /\ adaptive_params = AnalyzeDataCharacteristics(c[1], c[2])
    /\ before_indices = [NDVI |-> 7500, EVI |-> 9000, NDMI |-> 1000, NBR |-> 5000]
    /\ after_indices = [NDVI |-> 300, EVI |-> 1500, NDMI |-> -1000, NBR |-> 1000]
    /\ period = Undated
    /\ locals = <<>>
    /\ \E score \in ScoreRasters :
        change_image =
            [deforestation_score |-> score,
             filtered_deforestation_score |-> score,
             thresholded_change |-> Gte(score, DetectionThreshold(adaptive_params))]
    /\ month_factor = One
    /\ history = <<>>

SpecCleaner == InitCleaner /\ [][NextRaster]_vars

----------------------------------------------------------------------------
(* Spectral Index Calculator.  A band name is the sequence of its          *)
(* characters; an image is the list of its band names, whether the         *)
(* provider answers bandNames(), and the reflectance of each band at the   *)
(* pixel.                                                                  *)

Uppercase ==
    <<"A", "B", "C", "D", "E", "F", "G", "H", "I", "J", "K", "L", "M",
      "N", "O", "P", "Q", "R", "S", "T", "U", "V", "W", "X", "Y", "Z">>

Lowercase ==
    <<"a", "b", "c", "d", "e", "f", "g", "h", "i", "j", "k", "l", "m",
      "n", "o", "p", "q", "r", "s", "t", "u", "v", "w", "x", "y", "z">>

\* str.lower()
Lower(band) ==
    [i \in 1..Len(band) |->
        IF \E k \in 1..Len(Uppercase) : Uppercase[k] = band[i]
        THEN Lowercase[CHOOSE k \in 1..Len(Uppercase) : Uppercase[k] = band[i]]
        ELSE band[i]]

\* sub in band
In(sub, band) ==
    \E i \in 0..(Len(band) - Len(sub)) : \A j \in 1..Len(sub) : band[i + j] = sub[j]

Roles == {"BLUE", "GREEN", "RED", "NIR", "SWIR1", "SWIR2"}

\* the branch of the mapping loop a band name takes
RoleOf(band) ==
    IF In(<<"B", "2">>, band) \/ In(<<"b", "l", "u", "e">>, Lower(band)) THEN "BLUE"
    ELSE IF In(<<"B", "3">>, band) \/ In(<<"g", "r", "e", "e", "n">>, Lower(band))
    THEN "GREEN"
    ELSE IF In(<<"B", "4">>, band) \/ In(<<"r", "e", "d">>, Lower(band)) THEN "RED"
    ELSE IF In(<<"B", "8">>, band) \/ In(<<"n", "i", "r">>, Lower(band)) THEN "NIR"
    ELSE IF In(<<"B", "1", "1">>, band) \/ In(<<"s", "w", "i", "r", "1">>, Lower(band))
    THEN "SWIR1"
    ELSE IF In(<<"B", "1", "2">>, band) \/ In(<<"s", "w", "i", "r", "2">>, Lower(band))
    THEN "SWIR2"
    ELSE "none"

\* band_map after the loop: a later band of a role replaces an earlier one
BandMap(available_bands) ==
    LET At(role) == {i \in 1..Len(available_bands) : RoleOf(available_bands[i]) = role}
        Last(S) == CHOOSE i \in S : \A j \in S : j <= i
    IN  [role \in {r \in Roles : At(r) # {}} |-> available_bands[Last(At(role))]]

\* image.bandNames().getInfo(), [] when the request fails
AvailableBands(image) == IF image.names_ok THEN image.names ELSE <<>>

\* a pixel without data
nodata == 0 - (2 * One)

\* ee.Image.normalizedDifference: no data where an input is negative or the
\* sum is zero
NormalizedDifference(x, y) ==
    IF x < 0 \/ y < 0 \/ x + y = 0 THEN nodata ELSE Div(x - y, x + y)

\* 2.5 * ((NIR - RED) / (NIR + 6 * RED - 7.5 * BLUE + 1))
EviExpression(nir, red, blue) ==
    Mul(25000, Div(nir - red, nir + 6 * red - Mul(75000, blue) + One))

\* ((NIR - RED) / (NIR + RED + 0.5)) * (1 + 0.5)
SaviExpression(nir, red) == Mul(Div(nir - red, nir + red + 5000), One + 5000)

\* the calculator, were one unresolved role to zero every index
CalculateVegetationIndicesAllOrNothing(image) ==
    LET band_map == BandMap(AvailableBands(image))
        Band(role) == image.value[band_map[role]]
    IN  IF {"BLUE", "RED", "NIR", "SWIR1", "SWIR2"} \subseteq DOMAIN band_map
        THEN [NDVI |-> NormalizedDifference(Band("NIR"), Band("RED")),
              EVI |-> EviExpression(Band("NIR"), Band("RED"), Band("BLUE")),
              SAVI |-> SaviExpression(Band("NIR"), Band("RED")),
              NDMI |-> NormalizedDifference(Band("NIR"), Band("SWIR1")),
              NBR |-> NormalizedDifference(Band("NIR"), Band("SWIR2"))]
        ELSE [NDVI |-> 0, EVI |-> 0, SAVI |-> 0, NDMI |-> 0, NBR |-> 0]

CalculateVegetationIndices(image) ==
    LET band_map == BandMap(AvailableBands(image))
        Has(role) == role \in DOMAIN band_map
        Band(role) == image.value[band_map[role]]
    IN  [NDVI |-> IF Has("NIR") /\ Has("RED")
                  THEN NormalizedDifference(Band("NIR"), Band("RED"))
                  ELSE 0,
         EVI |->  IF Has("NIR") /\ Has("RED") /\ Has("BLUE")
                  THEN EviExpression(Band("NIR"), Band("RED"), Band("BLUE"))
                  ELSE 0,
         SAVI |-> IF Has("NIR") /\ Has("RED")
                  THEN SaviExpression(Band("NIR"), Band("RED"))
                  ELSE 0,
         NDMI |-> IF Has("NIR") /\ Has("SWIR1")
                  THEN NormalizedDifference(Band("NIR"), Band("SWIR1"))
                  ELSE 0,
         NBR |->  IF Has("NIR") /\ Has("SWIR2")
                  THEN NormalizedDifference(Band("NIR"), Band("SWIR2"))
                  ELSE 0]

\* the harmonized Sentinel-2 names, the same with a band missing, a raw
\* product with B8 and B8A, and rasters labelled by colour
BandLists ==
    LET B2 == <<"B", "2">>
        B3 == <<"B", "3">>
        B4 == <<"B", "4">>
        B5 == <<"B", "5">>
        B8 == <<"B", "8">>
        B8A == <<"B", "8", "A">>
        B11 == <<"B", "1", "1">>
        B12 == <<"B", "1", "2">>
    IN  {<<B2, B3, B4, B8, B11, B12>>,
         <<B2, B3, B4, B8, B11>>,
         <<B2, B3, B4, B8, B12>>,
         <<B2, B3, B4, B11, B12>>,
         <<B2, B3, B8, B11, B12>>,
         <<B3, B4, B8, B11, B12>>,
         <<B2, B4, B8, B11, B12>>,
         <<B3, B4, B8>>,
         <<B4, B5, B8, B8A, B12>>,
         <<B4, B5, B8, B8A>>,
         <<<<"B", "l", "u", "e">>, <<"R", "e", "d">>, <<"N", "I", "R">>,
           <<"S", "W", "I", "R", "2">>>>,
         <<<<"B", "l", "u", "e">>, <<"R", "e", "d">>, <<"N", "I", "R">>>>,
         <<>>}

\* reflectances of a canopy, of bare ground and of a constant-zero fill
Scenes ==
    {[BLUE |-> 300, GREEN |-> 600, RED |-> 400, NIR |-> 4000, SWIR1 |-> 2000,
      SWIR2 |-> 1000, none |-> 1500],
     [BLUE |-> 1000, GREEN |-> 1500, RED |-> 2000, NIR |-> 2500, SWIR1 |-> 3000,
      SWIR2 |-> 2800, none |-> 2200],
     [BLUE |-> 0, GREEN |-> 0, RED |-> 0, NIR |-> 0, SWIR1 |-> 0,
      SWIR2 |-> 0, none |-> 0]}

NamesOf(names) == {names[i] : i \in 1..Len(names)}

\* the narrow NIR band B8A reads a little higher than B8
ImageOf(names, scene, names_ok) ==
    [names_ok |-> names_ok,
     names |-> names,
     value |-> Raster([band \in NamesOf(names) |->
                    scene[RoleOf(band)]
                    + (IF band = <<"B", "8", "A">> /\ scene.NIR > 0 THEN 200 ELSE 0)])]

Images ==
    {ImageOf(names, scene, TRUE) : names \in BandLists, scene \in Scenes}
    \cup {ImageOf(names, scene, FALSE) :
            names \in {<<<<"B", "4">>, <<"B", "8">>, <<"B", "1", "2">>>>},
            scene \in Scenes}

\* detect_change: the indices of the before image
IndicesBefore ==
    /\ pc = "images"
    /\ before_indices' = CalculateVegetationIndices(locals.before_image)
    /\ pc' = "before indices"
    /\ Stage("before indices")
    /\ UNCHANGED <<user_preferences, stats, after_indices, period, adaptive_params,
                   locals, change_image, month_factor>>

\* detect_change: the indices of the after image
IndicesAfter ==
    /\ pc = "before indices"
    /\ after_indices' = CalculateVegetationIndices(locals.after_image)
    /\ pc' = "indices"
    /\ Stage("after indices")
    /\ UNCHANGED <<user_preferences, stats, before_indices, period, adaptive_params,
                   locals, change_image, month_factor>>

NextIndices ==
    \/ IndicesBefore
    \/ IndicesAfter

InitIndices ==
    /\ pc = "images"
    /\ stats = DenseCase[1]
    /\ user_preferences = DenseCase[2]
    /\ period = Undated
    /\ adaptive_params = AnalyzeDataCharacteristics(stats, user_preferences)
    /\ \E before_image \in Images, after_image \in Images :
        locals = [before_image |-> before_image, after_image |-> after_image]
    /\ before_indices = <<>>
    /\ after_indices = <<>>
    /\ change_image = <<>>
    /\ month_factor = One
    /\ history = <<"analyzer">>

SpecIndices == InitIndices /\ [][NextIndices]_vars

----------------------------------------------------------------------------
(* ChangeDetectionSystem.process_aoi.  Alert types and class names are     *)
(* sequences of characters; dates are days counted from today; the         *)
(* provider answers with the sizes of the collections it finds.            *)

deforestation == <<"d", "e", "f", "o", "r", "e", "s", "t", "a", "t", "i", "o", "n">>

urban_development == <<"u", "r", "b", "a", "n", "_", "d", "e", "v", "e", "l", "o", "p", "m",
                       "e", "n", "t">>

water_body_change == <<"w", "a", "t", "e", "r", "_", "b", "o", "d", "y", "_", "c", "h", "a",
                       "n", "g", "e">>

land_use_change == <<"l", "a", "n", "d", "_", "u", "s", "e", "_", "c", "h", "a", "n", "g",
                     "e">>

valid_alert_types == {deforestation, urban_development, water_body_change, land_use_change}

\* _load_algorithms: the class registered under each name
algorithm_registry ==
    deforestation :> <<"D", "e", "f", "o", "r", "e", "s", "t", "a", "t", "i", "o", "n", "D",
                       "e", "t", "e", "c", "t", "i", "o", "n">>
    @@ urban_development :> <<"U", "r", "b", "a", "n", "D", "e", "v", "e", "l", "o", "p", "m", "e",
                              "n", "t", "D", "e", "t", "e", "c", "t", "i", "o", "n">>
    @@ water_body_change :> <<"W", "a", "t", "e", "r", "B", "o", "d", "y", "C", "h", "a", "n", "g",
                              "e", "D", "e", "t", "e", "c", "t", "i", "o", "n">>
    @@ land_use_change :> <<"L", "a", "n", "d", "U", "s", "e", "C", "h", "a", "n", "g", "e", "D",
                            "e", "t", "e", "c", "t", "i", "o", "n">>

\* str.replace(old, '')
RECURSIVE Remove(_, _)
Remove(s, old) ==
    IF Len(s) < Len(old) THEN s
    ELSE IF SubSeq(s, 1, Len(old)) = old
    THEN Remove(SubSeq(s, Len(old) + 1, Len(s)), old)
    ELSE <<s[1]>> \o Remove(Tail(s), old)

\* algorithm.__class__.__name__.lower().replace('detection', '')
AlertTypeOfClass(class_name) ==
    Remove(SubSeq(Lower(class_name), 1, Len(class_name)), <<"d", "e", "t", "e", "c", "t", "i", "o", "n">>)

\* the name a class is registered under
AlertTypeOfRequest(class_name) ==
    CHOOSE alert_type \in DOMAIN algorithm_registry :
        algorithm_registry[alert_type] = class_name

mmu_thresholds ==
    deforestation :> 15
    @@ urban_development :> 10
    @@ water_body_change :> 8
    @@ land_use_change :> 12

\* mmu_thresholds.get(alert_type, 10)
MmuThresholdOf(alert_type) ==
    IF alert_type \in DOMAIN mmu_thresholds THEN mmu_thresholds[alert_type] ELSE 10

\* the branch of the context-based filtering
ContextFilterOf(alert_type) ==
    IF alert_type = deforestation THEN "natural_forest_mask"
    ELSE IF alert_type = urban_development THEN "consistent_change"
    ELSE IF alert_type = water_body_change THEN "water_indicators"
    ELSE "significant_change"

\* the score band each algorithm puts in its change image
ScoreBandOfClass(class_name) ==
    AlertTypeOfRequest(class_name) \o <<"_", "s", "c", "o", "r", "e">>

Raised(error) == [ok |-> FALSE, error |-> error]

\* ''.join(['_' + c.lower() if c.isupper() else c for c in key]).lstrip('_')
SnakeCase(key) == IF key = "alertType" THEN "alert_type" ELSE key

required_keys == <<"geometry", "alertType", "threshold">>

\* an object of the Earth Engine client library
EeObject(class) == [ee_object |-> class]

\* the threshold test of _process_aoi_input left out
ProcessAoiInputAnyThreshold(aoi_data) ==
    IF \E i \in 1..Len(required_keys) :
            /\ required_keys[i] \notin DOMAIN aoi_data
            /\ SnakeCase(required_keys[i]) \notin DOMAIN aoi_data
    THEN Raised("Missing required key")
    ELSE
    LET data == aoi_data @@ [alertType |-> Get(aoi_data, "alert_type", <<>>)]
    IN  IF data.geometry.type \notin {"Circle", "Polygon", "Rectangle"}
        THEN Raised("Unsupported geometry type")
        ELSE IF data.alertType \notin valid_alert_types
        THEN Raised("Invalid alert type")
        ELSE [ok |-> TRUE,
              processed |->
                [alert_type |-> data.alertType,
                 threshold |-> data.threshold,
                 original_geometry |-> data.geometry,
                 ee_geometry |-> EeObject("Geometry"),
                 aoi_id |-> Get(data, "aoi_id", "unknown")]
                @@ (IF "customDates" \in DOMAIN data
                    THEN [custom_dates |-> data.customDates]
                    ELSE IF "monitoringDates" \in DOMAIN data
                    THEN [custom_dates |->
                            [startDate |-> data.monitoringDates.start,
                             endDate |-> data.monitoringDates.end]]
                    ELSE <<>>)]

ProcessAoiInput(aoi_data) ==
    IF \E i \in 1..Len(required_keys) :
            /\ required_keys[i] \notin DOMAIN aoi_data
            /\ SnakeCase(required_keys[i]) \notin DOMAIN aoi_data
    THEN Raised("Missing required key")
    ELSE
    LET data == aoi_data @@ [alertType |-> Get(aoi_data, "alert_type", <<>>)]
    IN  IF data.geometry.type \notin {"Circle", "Polygon", "Rectangle"}
        THEN Raised("Unsupported geometry type")
        ELSE IF data.alertType \notin valid_alert_types
        THEN Raised("Invalid alert type")
        ELSE IF data.threshold < 1000 \/ data.threshold > One
        THEN Raised("Invalid threshold")
        ELSE [ok |-> TRUE,
              processed |->
                [alert_type |-> data.alertType,
                 threshold |-> data.threshold,
                 original_geometry |-> data.geometry,
                 ee_geometry |-> EeObject("Geometry"),
                 aoi_id |-> Get(data, "aoi_id", "unknown")]
                @@ (IF "customDates" \in DOMAIN data
                    THEN [custom_dates |-> data.customDates]
                    ELSE IF "monitoringDates" \in DOMAIN data
                    THEN [custom_dates |->
                            [startDate |-> data.monitoringDates.start,
                             endDate |-> data.monitoringDates.end]]
                    ELSE <<>>)]

\* A date of a request: absent (None or ''), a day that parses, a string
\* strptime rejects, or a value that is no string.
Day(n) == [kind |-> "day", day |-> n]

Absent == [kind |-> "absent"]

Unparsed == [kind |-> "unparseable"]

NoString == [kind |-> "number"]

\* _get_default_date_ranges: the last 180 days
DefaultDateRanges == [ok |-> TRUE, source |-> "default", start |-> 0 - 180, end |-> 0]

\* _get_date_ranges, up to the split of the window into the two periods
DateRanges(processed_aoi) ==
    IF "custom_dates" \notin DOMAIN processed_aoi THEN DefaultDateRanges
    ELSE
    LET start_date == processed_aoi.custom_dates.startDate
        end_date == processed_aoi.custom_dates.endDate
    IN  IF start_date.kind = "number" THEN Raised("TypeError")
        ELSE IF start_date.kind = "unparseable" THEN DefaultDateRanges
        ELSE IF end_date.kind = "number" THEN Raised("TypeError")
        ELSE IF end_date.kind = "unparseable" THEN DefaultDateRanges
        ELSE
        LET user_start == IF start_date.kind = "day" THEN start_date.day ELSE 0 - 180
            user_end == IF end_date.kind = "day" THEN end_date.day ELSE 0
            total_days == user_end - user_start
        IN  IF total_days <= 0
            THEN [ok |-> TRUE, source |-> "default period", start |-> 0 - 180, end |-> 0]
            ELSE IF total_days < 60
            THEN [ok |-> TRUE, source |-> "extended", start |-> user_end - 180,
                  end |-> user_end]
            ELSE [ok |-> TRUE, source |-> "custom", start |-> user_start,
                  end |-> user_end]

\* _get_sentinel2_imagery: the size of the collection after the retries with
\* 50% and with any cloud cover; counts are the sizes under the three filters
Sentinel2Imagery(counts) ==
    IF counts[1] # 0 THEN counts[1]
    ELSE IF counts[2] # 0 THEN counts[2]
    ELSE counts[3]

\* the test for an empty collection made on the before period alone
PrepareMultitemporalImageryBeforeOnly(processed_aoi, provider) ==
    LET date_ranges == DateRanges(processed_aoi)
    IN  IF ~date_ranges.ok THEN Raised(date_ranges.error)
        ELSE IF Sentinel2Imagery(provider.before) = 0
        THEN Raised("Unable to obtain sufficient imagery for change detection.")
        ELSE [ok |-> TRUE,
              imagery |-> [before_size |-> Sentinel2Imagery(provider.before),
                           after_size |-> Sentinel2Imagery(provider.after),
                           date_ranges |-> date_ranges]]

\* _prepare_multitemporal_imagery: the date ranges, the two collections and
\* the test for an empty one
PrepareMultitemporalImagery(processed_aoi, provider) ==
    LET date_ranges == DateRanges(processed_aoi)
    IN  IF ~date_ranges.ok THEN Raised(date_ranges.error)
        ELSE IF Sentinel2Imagery(provider.before) = 0 \/ Sentinel2Imagery(provider.after) = 0
        THEN Raised("Unable to obtain sufficient imagery for change detection.")
        ELSE [ok |-> TRUE,
              imagery |-> [before_size |-> Sentinel2Imagery(provider.before),
                           after_size |-> Sentinel2Imagery(provider.after),
                           date_ranges |-> date_ranges]]

\* _select_change_detection_algorithm: a new instance of the registered class
SelectChangeDetectionAlgorithm(alert_type) ==
    IF alert_type \notin DOMAIN algorithm_registry THEN Raised("Unknown algorithm")
    ELSE [ok |-> TRUE,
          algorithm |-> [class_name |-> algorithm_registry[alert_type],
                         adaptive_params |-> <<>>]]

\* _detect_changes: what it returns next to the change image
DetectionResults(algorithm, imagery, threshold) ==
    [change_image |-> EeObject("Image"),
     alert_type |-> AlertTypeOfClass(algorithm.class_name),
     score_band |-> AlertTypeOfClass(algorithm.class_name) \o <<"_", "s", "c", "o", "r", "e">>,
     threshold |-> threshold,
     date_ranges |-> imagery.date_ranges]

\* _apply_advanced_false_positive_filtering: the pixel count of the minimum
\* mapping unit and the context filter it applies
AdvancedFilteringResults(detection_results) ==
    detection_results
    @@ [mmu_threshold |-> MmuThresholdOf(detection_results.alert_type),
        context_filter |-> ContextFilterOf(detection_results.alert_type)]

\* _generate_change_maps_and_alerts: the band list of the change image is read
\* outside any try, so a score band the image lacks, or a provider that does
\* not respond, ends the request; so does a geometry without coordinates when
\* the alert data are put together.  The change maps are Earth Engine images.
GenerateChangeMapsAndAlerts(filtered_results, processed_aoi, algorithm, provider) ==
    IF filtered_results.score_band # ScoreBandOfClass(algorithm.class_name)
    THEN Raised("EEException: band not found")
    ELSE IF ~provider.responds THEN Raised("EEException")
    ELSE IF "coordinates" \notin DOMAIN processed_aoi.original_geometry
    THEN Raised("KeyError: 'coordinates'")
    ELSE [ok |-> TRUE,
          change_maps |-> [before |-> EeObject("Image"), after |-> EeObject("Image"),
                           change |-> EeObject("Image")],
          alert_data |-> [type |-> filtered_results.alert_type,
                          confidence |-> filtered_results.threshold,
                          aoiId |-> processed_aoi.aoi_id,
                          status |-> "new"]]

Raise(error) ==
    /\ pc' = "raised"
    /\ locals' = locals @@ [error |-> error]

ProcessInput ==
    /\ pc = "request"
    /\ LET input == ProcessAoiInput(locals.aoi_data)
       IN  IF input.ok
           THEN /\ pc' = "input"
                /\ locals' = locals @@ [processed_aoi |-> input.processed]
           ELSE Raise(input.error)
    /\ Stage("input")
    /\ UNCHANGED <<user_preferences, stats, before_indices, after_indices, period,
                   adaptive_params, change_image, month_factor>>

PrepareImagery ==
    /\ pc = "input"
    /\ LET prepared == PrepareMultitemporalImagery(locals.processed_aoi, stats)
       IN  /\ IF prepared.ok
              THEN /\ pc' = "imagery"
                   /\ locals' = locals @@ [imagery |-> prepared.imagery]
              ELSE Raise(prepared.error)
           /\ history' = history \o
                (IF DateRanges(locals.processed_aoi).ok
                 THEN <<"date ranges", "fetch before", "fetch after">>
                 ELSE <<"date ranges">>)
    /\ UNCHANGED <<user_preferences, stats, before_indices, after_indices, period,
                   adaptive_params, change_image, month_factor>>

MaskImagery ==
    /\ pc = "imagery"
    /\ pc' = "masked"
    /\ Stage("mask")
    /\ UNCHANGED <<user_preferences, stats, before_indices, after_indices, period,
                   adaptive_params, locals, change_image, month_factor>>

SelectAlgorithm ==
    /\ pc = "masked"
    /\ LET selected == SelectChangeDetectionAlgorithm(locals.processed_aoi.alert_type)
       IN  IF selected.ok
           THEN /\ pc' = "selected"
                /\ locals' = locals @@ [algorithm |-> selected.algorithm]
           ELSE Raise(selected.error)
    /\ Stage("select")
    /\ UNCHANGED <<user_preferences, stats, before_indices, after_indices, period,
                   adaptive_params, change_image, month_factor>>

RunDetection ==
    /\ pc = "selected"
    /\ pc' = "detected"
    /\ locals' = locals @@
         [detection_results |->
            DetectionResults(locals.algorithm, locals.imagery,
                             locals.processed_aoi.threshold)]
    /\ history' = history \o <<"score", "threshold", "filter">>
    /\ UNCHANGED <<user_preferences, stats, before_indices, after_indices, period,
                   adaptive_params, change_image, month_factor>>

AdvancedFiltering ==
    /\ pc = "detected"
    /\ pc' = "filtered"
    /\ locals' = locals @@
         [filtered_results |-> AdvancedFilteringResults(locals.detection_results)]
    /\ Stage("advanced filter")
    /\ UNCHANGED <<user_preferences, stats, before_indices, after_indices, period,
                   adaptive_params, change_image, month_factor>>

GenerateAlerts ==
    /\ pc = "filtered"
    /\ LET generated ==
            GenerateChangeMapsAndAlerts(locals.filtered_results, locals.processed_aoi,
                                        locals.algorithm, stats)
       IN  IF generated.ok
           THEN /\ pc' = "returned"
                /\ locals' = locals @@ [alert_data |-> generated.alert_data,
                                         change_maps |-> generated.change_maps]
           ELSE Raise(generated.error)
    /\ Stage("alerts")
    /\ UNCHANGED <<user_preferences, stats, before_indices, after_indices, period,
                   adaptive_params, change_image, month_factor>>

NextRequest ==
    \/ ProcessInput
    \/ PrepareImagery
    \/ MaskImagery
    \/ SelectAlgorithm
    \/ RunDetection
    \/ AdvancedFiltering
    \/ GenerateAlerts

GeometryTypes == {"Circle", "Polygon", "Rectangle", "Point"}

\* the geometry the frontend sends for a type
GeometryOf(type) ==
    IF type = "Circle" THEN [type |-> type, center |-> <<0, 0>>, radius |-> 500]
    ELSE IF type = "Point" THEN [type |-> type, coordinates |-> <<0, 0>>]
    ELSE [type |-> type, coordinates |-> <<<<<<0, 0>>, <<0, 1>>, <<1, 1>>, <<0, 0>>>>>>]

AlertTypes == valid_alert_types \cup {<<"f", "l", "o", "o", "d">>}

Thresholds == {500, 1000, 5000, One, 12 * 1000}

\* the dates a request carries: none, a window that is long enough, a short
\* one, an end not after the start, a string that does not parse, a number
CustomDates ==
    { <<>>,
      [customDates |-> [startDate |-> Day(0 - 200), endDate |-> Day(0 - 20)]],
      [customDates |-> [startDate |-> Day(0 - 40), endDate |-> Absent]],
      [customDates |-> [startDate |-> Day(0 - 10), endDate |-> Day(0 - 50)]],
      [customDates |-> [startDate |-> Day(0 - 30), endDate |-> Day(0 - 30)]],
      [customDates |-> [startDate |-> Unparsed, endDate |-> Day(0)]],
      [customDates |-> [startDate |-> Day(0 - 90), endDate |-> Unparsed]],
      [customDates |-> [startDate |-> NoString, endDate |-> Absent]],
      [monitoringDates |-> [start |-> Day(0 - 120), end |-> Day(0 - 10)]] }

AoiRequests ==
    { [geometry |-> GeometryOf(type), alertType |-> alert_type, threshold |-> threshold]
        @@ dates :
        type \in GeometryTypes, alert_type \in AlertTypes, threshold \in Thresholds,
        dates \in CustomDates }
    \cup { [geometry |-> GeometryOf("Polygon"), alert_type |-> water_body_change,
            threshold |-> 5000],
           [geometry |-> GeometryOf("Circle"), alertType |-> deforestation] }

\* the sizes of a collection with less than 20% cloud, less than 50%, any
CollectionSizes == { <<3, 5, 8>>, <<0, 0, 1>>, <<0, 0, 0>> }

Providers ==
    [before : CollectionSizes, after : CollectionSizes, responds : BOOLEAN]

InitRequest ==
    /\ pc = "request"
    /\ \E aoi_data \in AoiRequests : locals = [aoi_data |-> aoi_data]
    /\ stats \in Providers
    /\ user_preferences = DenseCase[2]
    /\ period = Undated
    /\ adaptive_params = <<>>
    /\ before_indices = <<>>
    /\ after_indices = <<>>
    /\ change_image = <<>>
    /\ month_factor = One
    /\ history = <<>>

SpecRequest == InitRequest /\ [][NextRequest]_vars

----------------------------------------------------------------------------
(* The batch scheduler (scheduler.py).  A file is named by the AOI id and   *)
(* its suffix; its content is complete, or partial when the writer raised   *)
(* after the file was opened.                                               *)

\* ChangeDetectionSystem.process_aoi as the one call the scheduler makes
ProcessAoi(aoi_data, provider) ==
    LET input == ProcessAoiInput(aoi_data)
    IN  IF ~input.ok THEN Raised(input.error)
        ELSE
        LET prepared == PrepareMultitemporalImagery(input.processed, provider)
            selected == SelectChangeDetectionAlgorithm(input.processed.alert_type)
        IN  IF ~prepared.ok THEN Raised(prepared.error)
            ELSE IF ~selected.ok THEN Raised(selected.error)
            ELSE
            LET filtered_results ==
                    AdvancedFilteringResults(
                        DetectionResults(selected.algorithm, prepared.imagery,
                                         input.processed.threshold))
                generated ==
                    GenerateChangeMapsAndAlerts(filtered_results, input.processed,
                                                selected.algorithm, provider)
            IN  IF ~generated.ok THEN Raised(generated.error)
                ELSE [ok |-> TRUE,
                      results |-> [processed_aoi |-> input.processed,
                                   detection_results |-> filtered_results,
                                   alert_data |-> generated.alert_data,
                                   change_maps |-> generated.change_maps]]

\* the keys under which the results hold objects of the Earth Engine client
\* library: the geometry of _process_aoi_input, the change image of
\* _detect_changes, the thumbnails of _generate_change_maps_and_alerts
ee_valued == {"ee_geometry", "change_image", "before", "after", "change"}

\* json.dump(results, f) without a default: it raises TypeError at the first
\* value that is no dict, list, string, number, boolean or None
JsonDumpRaises(results) ==
    \E key \in DOMAIN results : DOMAIN results[key] \cap ee_valued # {}

\* the change maps replaced by a note
WithoutChangeMaps(results) ==
    IF "change_maps" \in DOMAIN results
    THEN [results EXCEPT !.change_maps =
            [status |-> "generated",
             description |-> "Maps were generated but removed from JSON output"]]
    ELSE results

\* open(name, 'w') and the dump: the file replaces one of the same name
Written(files, aoi_id, suffix, content) ==
    {f \in files : f.aoi_id # aoi_id \/ f.suffix # suffix}
    \cup {[aoi_id |-> aoi_id, suffix |-> suffix, content |-> content]}

\* the aoi_id of the file names
FileId(aoi_data) == Get(aoi_data, "aoi_id", "unknown_<time>")

\* the except branch of process_aoi
ProcessAoiFailed(aoi_data, error, files) ==
    [record |-> [aoi_id |-> Get(aoi_data, "aoi_id", "unknown"),
                 status |-> "failed",
                 error |-> error],
     files |-> Written(files, FileId(aoi_data), "_error.json", "complete")]

\* the except branch returning the record of a success
SchedulerProcessAoiFailureUnrecorded(aoi_data, provider, files) ==
    LET processed == ProcessAoi(aoi_data, provider)
    IN  IF ~processed.ok \/ JsonDumpRaises(WithoutChangeMaps(processed.results))
        THEN [record |-> [aoi_id |-> Get(aoi_data, "aoi_id", "unknown"),
                          status |-> "success"],
              files |-> files]
        ELSE [record |-> [aoi_id |-> Get(aoi_data, "aoi_id", "unknown"),
                          status |-> "success",
                          alert_data |-> Get(processed.results, "alert_data", <<>>)],
              files |-> Written(files, FileId(aoi_data), "_result.json", "complete")]

\* process_aoi of the scheduler: the record it returns and the files it leaves
SchedulerProcessAoi(aoi_data, provider, files) ==
    LET processed == ProcessAoi(aoi_data, provider)
    IN  IF ~processed.ok THEN ProcessAoiFailed(aoi_data, processed.error, files)
        ELSE IF JsonDumpRaises(WithoutChangeMaps(processed.results))
        THEN ProcessAoiFailed(aoi_data, "TypeError: not JSON serializable",
                              Written(files, FileId(aoi_data), "_result.json", "partial"))
        ELSE [record |-> [aoi_id |-> Get(aoi_data, "aoi_id", "unknown"),
                          status |-> "success",
                          alert_data |-> Get(processed.results, "alert_data", <<>>)],
              files |-> Written(files, FileId(aoi_data), "_result.json", "complete")]

\* sum(1 for r in results if r['status'] == 'success')
RECURSIVE SuccessCount(_)
SuccessCount(results) ==
    IF results = <<>> THEN 0
    ELSE (IF Head(results).status = "success" THEN 1 ELSE 0) + SuccessCount(Tail(results))

\* the body of the loop of process_aois_sequential
ProcessNextAoi ==
    /\ pc = "cycle"
    /\ Len(locals.results) < Len(locals.aoi_list)
    /\ LET i == Len(locals.results) + 1
           processed == SchedulerProcessAoi(locals.aoi_list[i], stats[i], locals.files)
       IN  locals' = [locals EXCEPT !.results = Append(@, processed.record),
                                    !.files = processed.files]
    /\ UNCHANGED <<pc, user_preferences, stats, before_indices, after_indices, period,
                   adaptive_params, change_image, month_factor, history>>

\* the end of run_processing_cycle: the counts and the summary report
Summarise ==
    /\ pc = "cycle"
    /\ Len(locals.results) = Len(locals.aoi_list)
    /\ pc' = "summary"
    /\ locals' = locals @@
         [summary |->
            [total_aois |-> Len(locals.results),
             success_count |-> SuccessCount(locals.results),
             failure_count |-> Len(locals.results) - SuccessCount(locals.results),
             results |-> locals.results]]
    /\ UNCHANGED <<user_preferences, stats, before_indices, after_indices, period,
                   adaptive_params, change_image, month_factor, history>>

NextBatch ==
    \/ ProcessNextAoi
    \/ Summarise

\* AOIs of an input file: one that process_aoi serves, a circle, another
\* alert type, a threshold out of range, one without an id
BatchAois ==
    { [aoi_id |-> "forest", geometry |-> GeometryOf("Polygon"),
       alertType |-> deforestation, threshold |-> 5000],
      [aoi_id |-> "circle", geometry |-> GeometryOf("Circle"),
       alertType |-> deforestation, threshold |-> 5000],
      [aoi_id |-> "lake", geometry |-> GeometryOf("Rectangle"),
       alertType |-> water_body_change, threshold |-> 3000],
      [aoi_id |-> "strict", geometry |-> GeometryOf("Polygon"),
       alertType |-> deforestation, threshold |-> 12 * 1000],
      [geometry |-> GeometryOf("Polygon"), alertType |-> deforestation,
       threshold |-> 1000] }

BatchProviders ==
    { [before |-> <<3, 5, 8>>, after |-> <<0, 0, 1>>, responds |-> TRUE],
      [before |-> <<3, 5, 8>>, after |-> <<0, 0, 0>>, responds |-> TRUE],
      [before |-> <<0, 0, 1>>, after |-> <<3, 5, 8>>, responds |-> FALSE] }

MaxAois == 2

InitBatch ==
    /\ pc = "cycle"
    /\ \E n \in 0..MaxAois :
        /\ \E aoi_list \in [1..n -> BatchAois] :
            locals = [aoi_list |-> aoi_list, results |-> <<>>, files |-> {}]
        /\ stats \in [1..n -> BatchProviders]
    /\ user_preferences = DenseCase[2]
    /\ period = Undated
    /\ adaptive_params = <<>>
    /\ before_indices = <<>>
    /\ after_indices = <<>>
    /\ change_image = <<>>
    /\ month_factor = One
    /\ history = <<>>

SpecBatch == InitBatch /\ [][NextBatch]_vars

----------------------------------------------------------------------------
(* The entry points run_detection_wrapper.py and direct_detection.py.  The  *)
(* environment says which files exist, whether the input parses, the        *)
(* platform, and what each run of the detection script does: its return     *)
(* code and the result it writes itself.  A result is real when a detection *)
(* run produced it.                                                         *)

NoFile == [written |-> FALSE]

ResultFile(success, detected_change, real, type) ==
    [written |-> TRUE, success |-> success, detectedChange |-> detected_change,
     real |-> real, type |-> type]

\* what the detection script leaves in the output file
ScriptOutput(run, output) ==
    IF run.wrote = "result" THEN ResultFile(TRUE, run.detected_change, TRUE, run.type)
    ELSE IF run.wrote = "failure" THEN ResultFile(FALSE, FALSE, TRUE, run.type)
    ELSE output

\* the dummy result written when ml/run_detection.py is not there
DummyResult(aoi_data) ==
    ResultFile(TRUE, TRUE, FALSE, Get(aoi_data, "alertType", deforestation))

\* the except branch of the wrapper: the fallback result, when the input can
\* be read again
Fallback(env, output) ==
    [returncode |-> 1,
     output |-> IF env.input_parses
                THEN ResultFile(FALSE, FALSE, FALSE,
                                Get(env.aoi_data, "alertType", deforestation))
                ELSE output]

\* main of run_detection_wrapper.py
WrapperMain(env) ==
    IF ~env.input_exists THEN [returncode |-> 1, output |-> NoFile]
    ELSE IF ~env.script_exists
    THEN IF env.input_parses
         THEN [returncode |-> 0, output |-> DummyResult(env.aoi_data)]
         ELSE Fallback(env, NoFile)
    ELSE IF env.platform = "win32"
    THEN IF env.first_run.starts /\ env.first_run.returncode = 0
         THEN [returncode |-> 0, output |-> ScriptOutput(env.first_run, NoFile)]
         ELSE LET left == IF env.first_run.starts
                          THEN ScriptOutput(env.first_run, NoFile) ELSE NoFile
              IN  IF env.second_run.starts
                  THEN [returncode |-> 0, output |-> ScriptOutput(env.second_run, left)]
                  ELSE Fallback(env, left)
    ELSE IF env.first_run.starts /\ env.first_run.returncode = 0
    THEN [returncode |-> 0, output |-> ScriptOutput(env.first_run, NoFile)]
    ELSE Fallback(env, IF env.first_run.starts
                       THEN ScriptOutput(env.first_run, NoFile) ELSE NoFile)

\* main of direct_detection.py
DirectMain(env) ==
    IF ~env.input_exists THEN [returncode |-> 1, output |-> NoFile]
    ELSE IF ~env.input_parses THEN [returncode |-> 1, output |-> NoFile]
    ELSE [returncode |-> 0,
          output |-> ResultFile(TRUE, TRUE, FALSE,
                                Get(env.aoi_data, "alertType", deforestation))]

RunWrapper ==
    /\ pc = "wrapper"
    /\ pc' = "exited"
    /\ locals' = WrapperMain(stats)
    /\ Stage("run_detection_wrapper")
    /\ UNCHANGED <<user_preferences, stats, before_indices, after_indices, period,
                   adaptive_params, change_image, month_factor>>

RunDirect ==
    /\ pc = "direct"
    /\ pc' = "exited"
    /\ locals' = DirectMain(stats)
    /\ Stage("direct_detection")
    /\ UNCHANGED <<user_preferences, stats, before_indices, after_indices, period,
                   adaptive_params, change_image, month_factor>>

NextWrapper ==
    \/ RunWrapper
    \/ RunDirect

\* a run of the detection script: it does not start, completes with a result,
\* fails after writing its own failure, or fails before writing anything
ScriptRuns ==
    { [starts |-> FALSE, returncode |-> 1, wrote |-> "nothing",
       detected_change |-> FALSE, type |-> deforestation] }
    \cup { [starts |-> TRUE, returncode |-> 0, wrote |-> "result",
            detected_change |-> detected, type |-> deforestation] :
            detected \in BOOLEAN }
    \cup { [starts |-> TRUE, returncode |-> 1, wrote |-> wrote,
            detected_change |-> FALSE, type |-> deforestation] :
            wrote \in {"failure", "nothing"} }

Environments ==
    [input_exists : BOOLEAN, input_parses : BOOLEAN, script_exists : BOOLEAN,
     platform : {"win32", "linux"}, first_run : ScriptRuns, second_run : ScriptRuns,
     aoi_data : { <<>>, [alertType |-> water_body_change, aoi_id |-> "lake"] }]

InitWrapper ==
    /\ pc \in {"wrapper", "direct"}
    /\ stats \in {env \in Environments : env.input_parses => env.input_exists}
    /\ locals = [returncode |-> 0, output |-> NoFile]
    /\ user_preferences = DenseCase[2]
    /\ period = Undated
    /\ adaptive_params = <<>>
    /\ before_indices = <<>>
    /\ after_indices = <<>>
    /\ change_image = <<>>
    /\ month_factor = One
    /\ history = <<>>

SpecWrapper == InitWrapper /\ [][NextWrapper]_vars

----------------------------------------------------------------------------
(* Two detection runs of one ChangeDetectionSystem at once.  adaptive_params *)
(* is here the list of the DeforestationDetection instances made so far,     *)
(* each by the parameters it holds; a run knows its instance by its place    *)
(* in the list.                                                              *)

RunIds == {1, 2}

\* one instance kept by the system and handed to every request
SelectCachedInstance(instances) ==
    IF instances = <<>> THEN [instances |-> <<InitialParams>>, algorithm |-> 1]
    ELSE [instances |-> instances, algorithm |-> 1]

\* algorithm_class(config): every request gets an instance of its own
SelectInstance(instances) ==
    [instances |-> Append(instances, InitialParams), algorithm |-> Len(instances) + 1]

\* the run r after a stage: its position, the fields the stage adds
Advance(r, position, fields) ==
    locals' = [locals EXCEPT ![r] = ([pc |-> position] @@ fields) @@ @]

\* self.adaptive_params as the run r finds it
Own(r) == adaptive_params[locals[r].algorithm]

StageOf(r, name) == history' = Append(history, <<r, name>>)

RunSelect(r) ==
    /\ locals[r].pc = "start"
    /\ LET selected == SelectInstance(adaptive_params)
       IN  /\ adaptive_params' = selected.instances
           /\ Advance(r, "selected", [algorithm |-> selected.algorithm])
    /\ StageOf(r, "select")
    /\ UNCHANGED <<pc, user_preferences, stats, before_indices, after_indices, period,
                   change_image, month_factor>>

RunAnalyze(r) ==
    /\ locals[r].pc = "selected"
    /\ adaptive_params' =
         [adaptive_params EXCEPT ![locals[r].algorithm] =
            AnalyzeDataCharacteristics(locals[r].stats, user_preferences)]
    /\ Advance(r, "analyzed", <<>>)
    /\ StageOf(r, "analyzer")
    /\ UNCHANGED <<pc, user_preferences, stats, before_indices, after_indices, period,
                   change_image, month_factor>>

RunScore(r) ==
    /\ locals[r].pc = "analyzed"
    /\ Advance(r, "scored",
               [deforestation_score |->
                    PrimaryScore(locals[r].before, locals[r].after, Own(r)),
                scorer_read |-> Own(r)])
    /\ StageOf(r, "scorer")
    /\ UNCHANGED <<pc, user_preferences, stats, before_indices, after_indices, period,
                   adaptive_params, change_image, month_factor>>

RunCascade(r) ==
    /\ locals[r].pc = "scored"
    /\ Advance(r, "cascaded",
               [filtered_score |->
                    FalsePositiveFilters(
                        SeasonalFiltering(locals[r].deforestation_score,
                                          locals[r].before, locals[r].after),
                        locals[r].before, locals[r].after, Own(r), locals[r].nb),
                cascade_read |-> Own(r)])
    /\ StageOf(r, "cascade")
    /\ UNCHANGED <<pc, user_preferences, stats, before_indices, after_indices, period,
                   adaptive_params, change_image, month_factor>>

RunThreshold(r) ==
    /\ locals[r].pc = "cascaded"
    /\ Advance(r, "detected",
               [thresholded_change |-> ThresholdedChange(locals[r].filtered_score, Own(r)),
                thresholder_read |-> Own(r)])
    /\ StageOf(r, "thresholder")
    /\ UNCHANGED <<pc, user_preferences, stats, before_indices, after_indices, period,
                   adaptive_params, change_image, month_factor>>

NextConcurrent ==
    \E r \in RunIds :
        \/ RunSelect(r)
        \/ RunAnalyze(r)
        \/ RunScore(r)
        \/ RunCascade(r)
        \/ RunThreshold(r)

\* the answers of the provider to the analyzer of a run
ConcurrentStats == {c[1] : c \in RunCases}

ConcurrentBefores == [NDVI : {7500}, EVI : {9000}, NDMI : {1000}, NBR : {5000}]

ConcurrentAfters == [NDVI : {1200, 2600}, EVI : {1500}, NDMI : {-1000}, NBR : {1000}]

\* a request as the run starts on it
ConcurrentRuns ==
    [pc : {"start"}, stats : ConcurrentStats, before : ConcurrentBefores,
     after : ConcurrentAfters, nb : {[ok |-> TRUE, sum |-> 20000]}]

\* the system constructs every algorithm with an empty configuration
InitConcurrent ==
    /\ pc = "concurrent"
    /\ locals \in [RunIds -> ConcurrentRuns]
    /\ adaptive_params = <<>>
    /\ user_preferences = WellFormed(<<>>)
    /\ stats = <<>>
    /\ period = Undated
    /\ before_indices = <<>>
    /\ after_indices = <<>>
    /\ change_image = <<>>
    /\ month_factor = One
    /\ history = <<>>

SpecConcurrent == InitConcurrent /\ [][NextConcurrent]_vars

(***************************************************************************)
(* Properties                                                              *)
(***************************************************************************)

Computed(name) == name \in DOMAIN locals

InUnit(x) == 0 <= x /\ x <= One

\* C1: the score lies in [0, 1] after the primary scorer, after the seasonal
\* filter, after the cascade, and after the calendar-month adjustment.
ScoresWithinUnitInterval ==
    /\ Computed("deforestation_score") => InUnit(locals.deforestation_score)
    /\ Computed("seasonal_filtered_score") => InUnit(locals.seasonal_filtered_score)
    /\ Computed("filtered_score") => InUnit(locals.filtered_score)
    /\ pc \in {"detected", "done"} =>
        /\ InUnit(change_image.deforestation_score)
        /\ InUnit(change_image.filtered_deforestation_score)
    /\ pc = "done" /\ period.dated =>
        InUnit(change_image.seasonally_filtered_deforestation_score)

\* a dated run whose cascade boosted the score up to the top of the interval
ScoreClampedAtOne ==
    /\ pc = "done"
    /\ period.dated
    /\ locals.seasonal_filtered_score < One
    /\ locals.filtered_score = One
    /\ change_image.seasonally_filtered_deforestation_score > 0

SomeSubstepFailed ==
    \/ ~stats.vegetation.ok
    \/ ~stats.seasonal.ok
    \/ ~stats.centroid.ok
    \/ ~stats.counts.ok

AllSubstepsFailed ==
    /\ ~stats.vegetation.ok
    /\ ~stats.seasonal.ok
    /\ ~stats.centroid.ok
    /\ ~stats.counts.ok

Numbers(p) ==
    <<p.vegetation_threshold, p.sensitivity_multiplier,
      p.false_positive_factor, p.confidence_level>>

\* C2 as stated: when any sub-step of the analyzer fails, analyze returns
\* exactly the fallback record (0.12, 1.0, 0.8, 0.8).
AnyFailureReturnsFallback ==
    pc = "analyzed" /\ SomeSubstepFailed =>
        Numbers(adaptive_params) = <<1200, 10000, 8000, 8000>>

\* C2 (amended): analyze returns the fallback record (0.12, 1.0, 0.8, 0.8)
\* when the failure escapes the sub-steps (a preferences object that is no
\* dict).  A sub-step that fails on its own is replaced by its default:
\* vegetation by type unknown and base threshold 0.08, the seasonal context
\* by false-positive factor 0.8, the region by unknown, the data quality by
\* confidence 0.8; with all four failed and default preferences the record
\* is (0.064, 1.1, 0.6, 0.8).
FailureUsesSubstepDefaults ==
    pc = "analyzed" =>
        LET p == adaptive_params
        IN  /\ ~user_preferences.well_formed => p = FallbackParameters
            /\ user_preferences.well_formed =>
                /\ ~stats.vegetation.ok =>
                    /\ p.analysis_summary.vegetation_type = <<"unknown">>
                    /\ p.vegetation_threshold = Mul(800, p.confidence_level)
                /\ ~stats.seasonal.ok =>
                    /\ p.analysis_summary.seasonal_risk = "unknown"
                    /\ p.false_positive_factor \in {4800, 6000, 7200}
                /\ ~stats.centroid.ok => p.analysis_summary.region_type = "unknown"
                /\ ~stats.counts.ok =>
                    /\ p.analysis_summary.data_quality = "unknown"
                    /\ p.confidence_level = 8000
                /\ AllSubstepsFailed /\ user_preferences.dict = <<>> =>
                    Numbers(p) = <<640, 11000, 6000, 8000>>

\* every sub-step failed and analyze returned a record other than the fallback
AllFailedWithoutFallback ==
    /\ pc = "analyzed"
    /\ AllSubstepsFailed
    /\ user_preferences.well_formed
    /\ Numbers(adaptive_params) = <<640, 11000, 6000, 8000>>

\* C3: the analyzer's vegetation_threshold lies in [0.02, 0.2], its
\* sensitivity_multiplier in [0.5, 2.0], its false_positive_factor in
\* [0.4, 0.95] and its confidence_level in [0, 1], the fallback included.
AdaptiveParametersInRange ==
    pc = "analyzed" =>
        /\ 200 <= adaptive_params.vegetation_threshold
        /\ adaptive_params.vegetation_threshold <= 2000
        /\ 5000 <= adaptive_params.sensitivity_multiplier
        /\ adaptive_params.sensitivity_multiplier <= 20000
        /\ 4000 <= adaptive_params.false_positive_factor
        /\ adaptive_params.false_positive_factor <= 9500
        /\ InUnit(adaptive_params.confidence_level)

\* an analysis whose combination is cut back at both ends: low, dry
\* vegetation of low quality, read on few images by a sensitive caller
ParametersAtTheLimits ==
    /\ pc = "analyzed"
    /\ stats.vegetation.ok /\ stats.counts.ok
    /\ user_preferences.well_formed
    /\ adaptive_params.vegetation_threshold = 300
    /\ adaptive_params.sensitivity_multiplier = 20000
    /\ adaptive_params.false_positive_factor = 4000

Scored == Computed("deforestation_score")

\* how many of the given conditions hold
HowMany(conditions) == Cardinality({i \in DOMAIN conditions : conditions[i]})

\* C4 as stated: the baseline masks of the four regimes (dense/moderate,
\* sparse, degraded, strict fallback) are pixel-disjoint.
FourRegimesDisjoint ==
    Scored =>
        LET b == before_indices
            a == after_indices
            p == adaptive_params
        IN  HowMany(<<DenseForestBaseline(b, a, p) \/ ModerateVegetationBaseline(b, a, p),
                      StandardSparseBaseline(b, a, p),
                      DegradedAreasBaseline(b, a),
                      StrictFallbackCondition(b, a, p)>>) <= 1

\* C4 (amended): the dense, moderate, standard-sparse and strict-fallback
\* baselines are pairwise disjoint, the strict fallback is disjoint from
\* the degraded baseline too, and the degraded baseline is disjoint from
\* the dense, moderate and standard-sparse ones on its ultra-degraded
\* branch (pre-NDVI < 0.05).
RegimesDisjointButDegraded ==
    Scored =>
        LET b == before_indices
            a == after_indices
            p == adaptive_params
            banded == DenseForestBaseline(b, a, p)
                        \/ ModerateVegetationBaseline(b, a, p)
                        \/ StandardSparseBaseline(b, a, p)
        IN  /\ HowMany(<<DenseForestBaseline(b, a, p),
                         ModerateVegetationBaseline(b, a, p),
                         StandardSparseBaseline(b, a, p),
                         StrictFallbackCondition(b, a, p)>>) <= 1
            /\ ~(StrictFallbackCondition(b, a, p) /\ DegradedAreasBaseline(b, a))
            /\ ~(UltraDegradedBaseline(b, a) /\ banded)

\* a scored pixel in the degraded baseline (its NBR branch) and in the
\* dense baseline at once
DegradedAndDense ==
    /\ Scored
    /\ NbrDegradationBaseline(before_indices, after_indices)
    /\ DenseForestBaseline(before_indices, after_indices, adaptive_params)
    /\ locals.deforestation_score > 0

LowerAfter(n) == [after_indices EXCEPT !.NDVI = n]

\* C5: at a pixel of the dense baseline, a lower after-NDVI, all else
\* equal, never gives a lower raw score.
LowerAfterNdviNeverLowersScore ==
    Scored /\ DenseForestBaseline(before_indices, after_indices, adaptive_params) =>
        \A n \in NdviAfterSamples :
            n < after_indices.NDVI =>
                PrimaryScore(before_indices, LowerAfter(n), adaptive_params)
                    >= locals.deforestation_score

\* a dense-baseline pixel whose score a lower after-NDVI raises
LowerAfterNdviRaisesScore ==
    /\ Scored
    /\ DenseForestBaseline(before_indices, after_indices, adaptive_params)
    /\ locals.deforestation_score > 0
    /\ \E n \in NdviAfterSamples :
        /\ n < after_indices.NDVI
        /\ PrimaryScore(before_indices, LowerAfter(n), adaptive_params)
                > locals.deforestation_score

\* C10 as stated: where the baseline is dense or moderate and the
\* multi-index consensus is false, the dense/moderate regime contributes 0.
NoConsensusNoDenseOrModerateScore ==
    Scored =>
        LET b == before_indices
            a == after_indices
            p == adaptive_params
        IN  (DenseForestBaseline(b, a, p) \/ ModerateVegetationBaseline(b, a, p))
                /\ ~ConsistencyCheck(b, a)
            => DenseForestScore(b, a, p) = 0 /\ ModerateVegetationScore(b, a, p) = 0

\* C10 (amended): where the baseline is dense and the multi-index
\* consensus is false, the dense regime contributes 0; where the baseline
\* is moderate the consensus is not consulted and the raw score is at
\* least 0.9 times the ungated blend.
NoConsensusNoDenseScore ==
    Scored =>
        LET b == before_indices
            a == after_indices
            p == adaptive_params
        IN  /\ DenseForestBaseline(b, a, p) /\ ~ConsistencyCheck(b, a)
                => DenseForestScore(b, a, p) = 0
            /\ ModerateVegetationBaseline(b, a, p)
                => locals.deforestation_score >= Mul(PrimaryBlend(b, a, p), 9000)

\* a dense-baseline pixel that lost NDVI and NBR without the consensus
DenseLossWithoutConsensus ==
    /\ Scored
    /\ DenseForestBaseline(before_indices, after_indices, adaptive_params)
    /\ ~ConsistencyCheck(before_indices, after_indices)
    /\ PrimaryBlend(before_indices, after_indices, adaptive_params) > 5000
    /\ locals.deforestation_score = 0

DetectorOrder ==
    <<"analyzer", "scorer", "seasonal", "cascade", "thresholder", "calendar">>

Before(first, second) ==
    \E i, j \in DOMAIN history :
        history[i] = first /\ history[j] = second /\ i < j

DatedRunDone == pc = "done" /\ period.dated

\* C6 as stated: in a dated run the calendar-month factor is applied before
\* the cascade and before binarization, so that the mask is computed from
\* the calendar-adjusted score.
CalendarBeforeCascadeAndMask ==
    DatedRunDone =>
        /\ Before("calendar", "cascade")
        /\ Before("calendar", "thresholder")
        /\ change_image.thresholded_change =
            Bit(change_image.deforestation_score >= DetectionThreshold(adaptive_params))

\* C6 (amended): the stages run in the order analyzer, scorer, index-ratio
\* seasonal filter, cascade, thresholder and, in a dated run, the
\* calendar-month step last; the mask is computed from the
\* cascade-filtered score, before the calendar-month adjustment.
CalendarAfterThreshold ==
    /\ history = SubSeq(DetectorOrder, 1, Len(history))
    /\ pc = "done" =>
        /\ Len(history) = IF period.dated THEN 6 ELSE 5
        /\ change_image.thresholded_change =
            Bit(change_image.filtered_deforestation_score
                    >= DetectionThreshold(adaptive_params))

\* a dated run whose mask is set although the calendar-adjusted score is
\* below the detection threshold
MaskSetOnScoreBelowThreshold ==
    /\ DatedRunDone
    /\ history = DetectorOrder
    /\ change_image.thresholded_change = 1
    /\ change_image.deforestation_score < DetectionThreshold(adaptive_params)

Cascaded == Computed("filtered_score")

\* C7: the cascade's output is 0 if and only if its input score is 0 or
\* the baseline gate or the direction gate fails.
CascadeZeroOnlyAtGates ==
    Cascaded =>
        (locals.filtered_score = 0
            <=> \/ locals.seasonal_filtered_score = 0
                \/ ~VegetationBaselineFilter(before_indices)
                \/ ~NdviDecreased(before_indices, after_indices))

\* a positive score that passed both gates and kept a positive value under
\* the cloud-shadow penalty
PenalisedScoreStaysPositive ==
    /\ Cascaded
    /\ BasicFilter(before_indices, after_indices)
    /\ CloudShadowArtifact(before_indices, after_indices)
    /\ CloudPenalty(before_indices, after_indices, adaptive_params) < One
    /\ locals.seasonal_filtered_score > 0
    /\ locals.seasonal_filtered_score <= 7000
    /\ locals.filtered_score > 0

SeasonallyFiltered == Computed("seasonal_filtered_score")

\* the share of the score the seasonal filter takes is larger for weak
WeakLosesMore(weak, strong) ==
    LET b == before_indices
        a == after_indices
    IN  (weak - SeasonalFiltering(weak, b, a)) * strong
            > (strong - SeasonalFiltering(strong, b, a)) * weak

\* C8: where the seasonal false-positive indicator fires, a score above 0.7
\* keeps at least 90% of its value (0.9 stays at or above 0.81), to the
\* rounding of the last digit, and a positive score of 0.4 or less loses a
\* strictly larger share.
StrongScoresPreserved ==
    SeasonallyFiltered
        /\ LikelyFalsePositive(locals.deforestation_score, before_indices, after_indices)
    => LET raw == locals.deforestation_score
           b == before_indices
           a == after_indices
       IN  /\ raw > 7000 =>
                /\ 10 * locals.seasonal_filtered_score >= 9 * raw - 5
                /\ SeasonalFiltering(9000, b, a) >= 8100
                /\ \A weak \in {500, 2000, 4000} :
                    LikelyFalsePositive(weak, b, a) => WeakLosesMore(weak, raw)
           /\ raw > 0 /\ raw <= 4000 =>
                /\ 10 * locals.seasonal_filtered_score < 9 * raw - 5
                /\ \A strong \in {7001, 9000, One} :
                    LikelyFalsePositive(strong, b, a) => WeakLosesMore(raw, strong)

\* a score above 0.7 on which the indicator fired and the filter acted
StrongScoreFiltered ==
    /\ SeasonallyFiltered
    /\ LikelyFalsePositive(locals.deforestation_score, before_indices, after_indices)
    /\ locals.deforestation_score > 7000
    /\ locals.seasonal_filtered_score < locals.deforestation_score

\* C9 as stated: the calendar-month factor lies in [0.85, 0.95] whenever
\* dates are supplied.
MonthFactorAtMost95 ==
    DatedRunDone /\ period.parseable =>
        8500 <= month_factor /\ month_factor <= 9500

\* C9 (amended): the calendar-month factor lies in [0.85, 1.0]; it is
\* 0.85 on scores of 0.4 or less and at most 0.95 on the listed season
\* transitions, and the adjusted score is the filtered score times it.
MonthFactorAtMostOne ==
    DatedRunDone =>
        LET score == change_image.filtered_deforestation_score
        IN  /\ 8500 <= month_factor /\ month_factor <= One
            /\ change_image.seasonally_filtered_deforestation_score
                    = Mul(score, month_factor)
            /\ change_image.deforestation_score = Mul(score, month_factor)
            /\ month_factor < One /\ score <= 4000 => month_factor = 8500
            /\ month_factor < One
                /\ TransitionFactor(period.before_month, period.after_month) < One
                => month_factor <= 9500

\* a dated run over months of one season that leaves a score above 0.4 as
\* it was
ScoreLeftUnadjusted ==
    /\ DatedRunDone
    /\ period.parseable
    /\ period.before_month = 5 /\ period.after_month = 5
    /\ change_image.filtered_deforestation_score > 4000
    /\ month_factor = One
    /\ change_image.deforestation_score = change_image.filtered_deforestation_score

\* C11 as stated: the amplified NDVI-loss score contributes only at pixels
\* of pre-NDVI in [0.5 x vegetation_threshold, vegetation_threshold] whose
\* NDVI decreased by more than 0.05.
AmplifiedLossOnlyInSparseBand ==
    Scored =>
        LET b == before_indices
            a == after_indices
            p == adaptive_params
        IN  StandardSparseScore(b, a, p) > 0 =>
                /\ 2 * b.NDVI >= ThresholdOf(p)
                /\ b.NDVI <= ThresholdOf(p)
                /\ NdviChange(b, a) > 500

\* C11 (amended): the amplified NDVI-loss score contributes only at pixels
\* of pre-NDVI >= 0.05 that lost NDVI and that are either in the sparse
\* band (pre-NDVI in (0.5 x threshold, threshold], loss > 0.05) or in the
\* degraded-area baseline (pre-NDVI < 0.15 with an EVI loss > 0.008 or an
\* NBR loss > 0.015); the raw score is at least that contribution.
AmplifiedLossInSparseBandOrDegraded ==
    Scored =>
        LET b == before_indices
            a == after_indices
            p == adaptive_params
        IN  StandardSparseScore(b, a, p) > 0 =>
                /\ b.NDVI >= 500
                /\ NdviChange(b, a) > 0
                /\ \/ /\ 2 * b.NDVI > ThresholdOf(p)
                      /\ b.NDVI <= ThresholdOf(p)
                      /\ NdviChange(b, a) > 500
                   \/ /\ b.NDVI < 1500
                      /\ (EviChange(b, a) > 80 \/ NbrChange(b, a) > 150)
                /\ locals.deforestation_score >= StandardSparseScore(b, a, p)

\* a pixel above the sparse band, with an NDVI loss of 0.05 or less, whose
\* raw score is the amplified NDVI loss
AmplifiedLossAboveBand ==
    /\ Scored
    /\ before_indices.NDVI > ThresholdOf(adaptive_params)
    /\ NdviChange(before_indices, after_indices) <= 500
    /\ StandardSparseScore(before_indices, after_indices, adaptive_params) > 0
    /\ locals.deforestation_score
            = StandardSparseScore(before_indices, after_indices, adaptive_params)

NoBaseline == ~AnyBaseline(before_indices, after_indices, adaptive_params)

\* C12: where none of the dense, moderate or sparse/degraded baselines
\* matches, the raw score is at most 0.3, and it is positive only if the
\* NDVI loss exceeds 0.08 and the EVI loss exceeds 0.05.
FallbackScoreCapped ==
    Scored /\ NoBaseline =>
        /\ locals.deforestation_score <= 3000
        /\ locals.deforestation_score > 0 =>
            /\ NdviChange(before_indices, after_indices) > 800
            /\ EviChange(before_indices, after_indices) > 500

\* a pixel of no baseline whose joint NDVI and EVI loss is scored at the cap
FallbackScoreAtCap ==
    /\ Scored
    /\ NoBaseline
    /\ Mul(NdviDecrease(before_indices, after_indices), 12000) > 3000
    /\ locals.deforestation_score = 3000

\* the pixel of pre-change NDVI ndvi showing the NDVI loss of the run's
\* pixel, all else equal
TwinBefore(ndvi) == [before_indices EXCEPT !.NDVI = ndvi]

TwinAfter(ndvi) ==
    [after_indices EXCEPT !.NDVI = ndvi - NdviChange(before_indices, after_indices)]

\* the regimes whose baseline holds at the pixel
Regimes(b, a, p) ==
    {r \in {"dense", "moderate", "sparse", "degraded", "fallback"} :
        \/ r = "dense" /\ DenseForestBaseline(b, a, p)
        \/ r = "moderate" /\ ModerateVegetationBaseline(b, a, p)
        \/ r = "sparse" /\ StandardSparseBaseline(b, a, p)
        \/ r = "degraded" /\ DegradedAreasBaseline(b, a)
        \/ r = "fallback" /\ StrictFallbackCondition(b, a, p)}

LossScored ==
    /\ Scored
    /\ before_indices.NDVI \in {8000, 1000}
    /\ NdviChange(before_indices, after_indices) > 0

MeaningfulVegetation ==
    LET b == before_indices
    IN  /\ b.NDVI > 1000
        /\ \/ b.EVI > 500
           \/ b.NDMI > -1500
           \/ b.NDVI > 1500
           \/ (b.EVI > 1000 /\ b.NBR > 500)
        /\ b.NDVI > -3000
        /\ b.NDVI > -1000
        /\ b.NDMI > -4000

ForestPriority == before_indices.NDVI > 800 /\ before_indices.NBR > 1000

\* C14 as stated: a pixel passes the vegetation-baseline gate only if its
\* pre-change NDVI is above 0.1, it shows a chlorophyll, moisture or
\* structure signal, and it is not water, bare or extremely dry.
GateOnlyMeaningfulVegetation ==
    Cascaded =>
        /\ VegetationBaselineFilter(before_indices) => MeaningfulVegetation
        /\ locals.filtered_score > 0 => MeaningfulVegetation

\* C14 (amended): a pixel passes the vegetation-baseline gate exactly when
\* it meets those three conditions or its pre-change NDVI is above 0.08
\* and its pre-change NBR above 0.1; a positive cascade output is found
\* only at such pixels.
GateMeaningfulOrForestPriority ==
    Cascaded =>
        /\ VegetationBaselineFilter(before_indices)
            <=> (MeaningfulVegetation \/ ForestPriority)
        /\ locals.filtered_score > 0 => (MeaningfulVegetation \/ ForestPriority)

\* an extremely dry pixel of pre-NDVI 0.09 that passed the gate on its NBR
\* and kept a positive score
DryPixelPassesOnNbr ==
    /\ Cascaded
    /\ before_indices.NDVI <= 1000
    /\ before_indices.NDMI <= -4000
    /\ VegetationBaselineFilter(before_indices)
    /\ locals.filtered_score > 0

\* --------------------------------------------------------------------------
\* the support of the band filter_false_positives adds
FinalMask(image) == Support(image.final_deforestation_score)

Square(side, origin) ==
    {p \in Pixels :
        p[1] - origin[1] \in 0..(side - 1) /\ p[2] - origin[2] \in 0..(side - 1)}

\* the detector's score is a square of detections on a ground of none
DetectedSquare(side, origin) ==
    /\ origin[1] + side - 1 <= GridSize
    /\ \E level \in ScoreLevels :
        change_image.filtered_deforestation_score = Block(side, origin, level)
    /\ Marked(change_image.thresholded_change) = Square(side, origin)

Origins == {<<o, o>> : o \in 1..GridSize}

Thresholded == "thresholded_change" \in DOMAIN locals

ScenarioBMaskFalse ==
    pc = "done" /\ period = Dated(12, 4) => change_image.thresholded_change = 0

\* a pixel of scenario B whose score the calendar-month step has lowered and
\* which is in the final mask
ScenarioBMaskTrue ==
    /\ pc = "done" /\ period = Dated(12, 4)
    /\ month_factor < One
    /\ change_image.deforestation_score < change_image.filtered_deforestation_score
    /\ change_image.thresholded_change = 1

\* --------------------------------------------------------------------------
\* the place of a category along dense_forest, moderate_forest,
\* woodland_savanna, sparse_vegetation, very_sparse_vegetation,
\* low_vegetation, whatever suffix it carries
CategoryRank(vegetation_type) ==
    IF vegetation_type[1] = "dense" THEN 1
    ELSE IF vegetation_type[1] = "moderate" THEN 2
    ELSE IF vegetation_type[1] = "woodland" THEN 3
    ELSE IF vegetation_type[1] = "sparse" THEN 4
    ELSE IF vegetation_type[1] = "very" THEN 5
    ELSE IF vegetation_type[1] = "low" THEN 6
    ELSE 0

VegetationTypeOf(p) == p.analysis_summary.vegetation_type

\* the parameters the analyzer returns for the same AOI with another answer
\* to the vegetation reductions
AnalyzedWith(veg) ==
    AnalyzeDataCharacteristics([stats EXCEPT !.vegetation = veg], user_preferences)

CategoryAnalyzed ==
    /\ pc = "analyzed"
    /\ user_preferences.well_formed
    /\ stats.vegetation.ok

\* C19 as stated: the threshold chosen from the analyzed category is 0.12 for
\* dense forest, and no category further along the chain dense_forest,
\* moderate_forest, woodland_savanna, sparse_vegetation,
\* very_sparse_vegetation, low_vegetation, with or without a suffix, gets a
\* higher threshold than the analyzed one.
ThresholdNeverIncreasesWithSparserCategory ==
    CategoryAnalyzed =>
        /\ CategoryRank(VegetationTypeOf(adaptive_params)) = 1
            => DetectionThreshold(adaptive_params) = 1200
        /\ \A veg \in VegetationAnswers \ {Failed} :
            CategoryRank(VegetationTypeOf(AnalyzedWith(veg)))
                    > CategoryRank(VegetationTypeOf(adaptive_params))
                => DetectionThreshold(AnalyzedWith(veg))
                    <= DetectionThreshold(adaptive_params)

\* a very sparse AOI thresholded at 0.06 while a low-vegetation AOI without
\* the dry suffix is thresholded at 0.08
LowVegetationAboveVerySparse ==
    /\ CategoryAnalyzed
    /\ CategoryRank(VegetationTypeOf(adaptive_params)) = 5
    /\ DetectionThreshold(adaptive_params) = 600
    /\ \E veg \in VegetationAnswers \ {Failed} :
        /\ CategoryRank(VegetationTypeOf(AnalyzedWith(veg))) = 6
        /\ ~Contains(VegetationTypeOf(AnalyzedWith(veg)), "dry")
        /\ DetectionThreshold(AnalyzedWith(veg)) = 800

\* --------------------------------------------------------------------------
IndexNames == {"NDVI", "EVI", "SAVI", "NDMI", "NBR"}

\* the roles an index is computed from
RolesUsed(index) ==
    IF index = "EVI" THEN {"NIR", "RED", "BLUE"}
    ELSE IF index = "NDMI" THEN {"NIR", "SWIR1"}
    ELSE IF index = "NBR" THEN {"NIR", "SWIR2"}
    ELSE {"NIR", "RED"}

Resolves(image, role) == role \in DOMAIN BandMap(AvailableBands(image))

\* the image without the bands of a role
WithoutRole(image, role) ==
    LET Kept(band) == RoleOf(band) # role
        names == SelectSeq(image.names, Kept)
    IN  [names_ok |-> image.names_ok,
         names |-> names,
         value |-> Raster([band \in NamesOf(names) |-> image.value[band]])]

\* every image with a role it resolves taken away, and its indices
Degradations ==
    {[role |-> c[2],
      without |-> WithoutRole(c[1], c[2]),
      indices |-> CalculateVegetationIndices(c[1])] :
        c \in {d \in Images \X Roles : d[1].names_ok /\ Resolves(d[1], d[2])}}

\* the indices of the images that are the given one with the role present
WithRole(image, role) ==
    {d.indices : d \in {e \in Degradations : e.role = role /\ e.without = image}}

BeforeIndexed == pc \in {"before indices", "indices"}

\* C20: for an image in which no band resolves to SWIR2 the calculator
\* returns NBR = 0, and NDVI, EVI and SAVI are those of the same image with
\* SWIR2 present; for any unresolved role, every index that uses it is 0
\* and every other index is that of the same image with the role present.
UnresolvedRoleDegradesOnlyItsIndices ==
    BeforeIndexed =>
        LET image == locals.before_image
        IN  /\ DOMAIN before_indices = IndexNames
            /\ ~Resolves(image, "SWIR2") =>
                /\ before_indices.NBR = 0
                /\ \A with \in WithRole(image, "SWIR2") :
                    \A index \in {"NDVI", "EVI", "SAVI"} :
                        with[index] = before_indices[index]
            /\ \A role \in Roles :
                ~Resolves(image, role) =>
                    /\ \A index \in IndexNames :
                        role \in RolesUsed(index) => before_indices[index] = 0
                    /\ \A with \in WithRole(image, role) :
                        \A index \in IndexNames :
                            role \notin RolesUsed(index)
                                => with[index] = before_indices[index]

\* a canopy raster without SWIR2: NBR is 0, NDVI, EVI and SAVI are those of
\* the raster with B12, whose NBR is not 0
Swir2MissingOnlyNbrDegraded ==
    /\ BeforeIndexed
    /\ ~Resolves(locals.before_image, "SWIR2")
    /\ before_indices.NBR = 0
    /\ before_indices.NDVI > 0 /\ before_indices.EVI > 0 /\ before_indices.SAVI > 0
    /\ before_indices.NDMI > 0
    /\ \E with \in WithRole(locals.before_image, "SWIR2") :
        /\ with.NBR > 0
        /\ with.NDVI = before_indices.NDVI

\* --------------------------------------------------------------------------
DrySignature(veg) ==
    veg.ok /\ veg.ndvi_mean < 3500 /\ veg.ndvi_p90 - veg.ndvi_p10 < 4000

\* the same answer with a percentile range too wide for the dry signature
WithoutDrySignature(veg) == [veg EXCEPT !.ndvi_p90 = veg.ndvi_p10 + 4000]

\* C25 as stated: when the dry/seasonal-forest signature fires, the base
\* threshold is not higher and the sensitivity multiplier not lower than
\* the values the category gets without the correction.
DryCorrectionSharpens ==
    pc = "analyzed" /\ DrySignature(stats.vegetation) =>
        LET corrected == VegetationDistribution(stats.vegetation)
            uncorrected == VegetationDistribution(WithoutDrySignature(stats.vegetation))
        IN  /\ corrected.base_threshold <= uncorrected.base_threshold
            /\ corrected.sensitivity_multiplier >= uncorrected.sensitivity_multiplier

\* a low-vegetation AOI with the dry signature and no other correction:
\* base threshold 0.025 against the category's 0.02
LowVegetationDryThresholdRaised ==
    /\ pc = "analyzed" /\ DrySignature(stats.vegetation)
    /\ VegetationDistribution(stats.vegetation).density_category
        = <<"low", "vegetation", "dry", "adapted">>
    /\ VegetationDistribution(stats.vegetation).base_threshold = 250
    /\ VegetationDistribution(WithoutDrySignature(stats.vegetation)).base_threshold = 200
    /\ VegetationDistribution(stats.vegetation).sensitivity_multiplier = 20000

\* --------------------------------------------------------------------------
\* the cascade's penalties take the score below its input at this pixel
PenaltiesLowerScore ==
    /\ Stage2Filtered(locals.seasonal_filtered_score, before_indices, after_indices,
                      adaptive_params)
            < locals.seasonal_filtered_score
    /\ \E nb \in NeighbourAnswers :
        FinalFiltered(locals.seasonal_filtered_score, before_indices, after_indices,
                      adaptive_params, nb)
            < locals.seasonal_filtered_score

\* C27: at a pixel whose cascade input score exceeds 0.7 and which passes
\* the vegetation-baseline gate and the NDVI-decrease gate, the cascade
\* output is at least the input score, whatever penalties fire.
HighConfidenceKeptByCascade ==
    Cascaded
        /\ locals.seasonal_filtered_score > 7000
        /\ BasicFilter(before_indices, after_indices)
    => locals.filtered_score >= locals.seasonal_filtered_score

\* a gated score above 0.7 that the penalties alone would have lowered and
\* that leaves the cascade unchanged
HighConfidencePenalisedAndKept ==
    /\ Cascaded
    /\ locals.seasonal_filtered_score > 7000
    /\ BasicFilter(before_indices, after_indices)
    /\ PenaltiesLowerScore
    /\ locals.filtered_score = locals.seasonal_filtered_score

\* --------------------------------------------------------------------------
\* C28: a pixel whose pre-change NDVI is at most 0.08 leaves the cascade
\* with score 0, whatever its raw score, and is false in the thresholded
\* mask of the run; so is every pixel of the degraded/negative-NDVI regime
\* (pre-change NDVI below 0.05).
LowNdviNeverDetected ==
    /\ Cascaded /\ before_indices.NDVI <= 800 => locals.filtered_score = 0
    /\ pc = "cascaded" =>
        \A ndvi \in {800, 500, 0, -2000} : \A score \in {2000, 7500, One} :
            \A nb \in NeighbourAnswers :
                FalsePositiveFilters(score, [before_indices EXCEPT !.NDVI = ndvi],
                                     after_indices, adaptive_params, nb) = 0
    /\ Thresholded /\ before_indices.NDVI <= 800 => locals.thresholded_change = 0
    /\ pc = "done" /\ before_indices.NDVI <= 800 => change_image.thresholded_change = 0
    /\ pc = "done" /\ NegativeNdviMask(before_indices)
        => change_image.thresholded_change = 0

\* a run that ended with a pixel of the degraded regime scored above every
\* binarization threshold, filtered to 0 and false in the mask, although its
\* NBR is that of a forest-priority area
DegradedPixelScoredButGated ==
    /\ pc = "done"
    /\ NegativeNdviMask(before_indices)
    /\ before_indices.NBR > 1000
    /\ DegradedAreasBaseline(before_indices, after_indices)
    /\ locals.deforestation_score > 1200
    /\ change_image.filtered_deforestation_score = 0
    /\ change_image.thresholded_change = 0


----------------------------------------------------------------------------
(* The request, from its validation to its alerts *)

FetchStages == {"fetch before", "fetch after"}

DetectionStages == {"mask", "select", "score", "threshold", "filter", "advanced filter", "alerts"}

StagesRun == {history[i] : i \in DOMAIN history}

\* the request is one _process_aoi_input refuses: geometry type, alert type
\* or threshold
InputRefused(aoi_data) ==
    /\ {"geometry", "threshold"} \subseteq DOMAIN aoi_data
    /\ "alertType" \in DOMAIN aoi_data \/ "alert_type" \in DOMAIN aoi_data
    /\ \/ aoi_data.geometry.type \notin {"Circle", "Polygon", "Rectangle"}
       \/ Get(aoi_data, "alertType", Get(aoi_data, "alert_type", <<>>))
            \notin valid_alert_types
       \/ aoi_data.threshold < 1000
       \/ aoi_data.threshold > One

\* the dates of the request, under either of its keys
RequestedDates(aoi_data) ==
    IF "customDates" \in DOMAIN aoi_data THEN aoi_data.customDates
    ELSE IF "monitoringDates" \in DOMAIN aoi_data
    THEN [startDate |-> aoi_data.monitoringDates.start,
          endDate |-> aoi_data.monitoringDates.end]
    ELSE [startDate |-> Absent, endDate |-> Absent]

\* a date does not parse, or the end is not after the start
InvalidDateRange(aoi_data) ==
    LET dates == RequestedDates(aoi_data)
    IN  \/ dates.startDate.kind = "unparseable"
        \/ dates.endDate.kind = "unparseable"
        \/ /\ dates.startDate.kind = "day"
           /\ dates.endDate.kind = "day"
           /\ dates.endDate.day <= dates.startDate.day

NothingFetchedNorDetected ==
    /\ pc \in {"request", "raised"}
    /\ StagesRun \cap (FetchStages \cup DetectionStages) = {}

Empty(counts) == \A i \in DOMAIN counts : counts[i] = 0

\* C22: when the collection of the before or of the after period is empty the
\* request fails with an explicit error: no scoring, thresholding or filtering
\* stage runs and no detection results or alert data exist.
EmptyCollectionFailsExplicitly ==
    (Empty(stats.before) \/ Empty(stats.after))
        => /\ StagesRun \cap DetectionStages = {}
           /\ pc \in {"request", "input", "raised"}
           /\ {"imagery", "detection_results", "filtered_results", "alert_data"}
                \cap DOMAIN locals = {}
           /\ (pc = "raised" /\ "fetch after" \in StagesRun)
                => locals.error =
                    "Unable to obtain sufficient imagery for change detection."

AfterCollectionEmptyRaised ==
    /\ pc = "raised"
    /\ ~Empty(stats.before)
    /\ Empty(stats.after)
    /\ history = <<"input", "date ranges", "fetch before", "fetch after">>
    /\ locals.error = "Unable to obtain sufficient imagery for change detection."


\* the alert type the request asked for, as _process_aoi_input kept it
Requested == locals.processed_aoi.alert_type

\* C26 as stated: the alert type carried in the detection results equals the
\* requested alert type, so the minimum mapping unit uses that type's own
\* pixel count (15, 10, 8, 12) and the type's own context filter is applied.
ResultsCarryRequestedAlertType ==
    "filtered_results" \in DOMAIN locals
        => /\ locals.detection_results.alert_type = Requested
           /\ locals.filtered_results.mmu_threshold = mmu_thresholds[Requested]
           /\ locals.filtered_results.context_filter = ContextFilterOf(Requested)

\* a water_body_change request carried as 'waterbodychange': the default
\* pixel count 10 instead of 8, and the generic context filter
WaterBodyChangeFilteredAsUnknownType ==
    /\ pc = "filtered"
    /\ Requested = water_body_change
    /\ locals.detection_results.alert_type
        = <<"w", "a", "t", "e", "r", "b", "o", "d", "y", "c", "h", "a", "n", "g", "e">>
    /\ locals.filtered_results.mmu_threshold = 10
    /\ locals.filtered_results.context_filter = "significant_change"


----------------------------------------------------------------------------
(* The batch cycle *)

\* the AOIs of the list the cycle has processed so far
Processed == 1..Len(locals.results)

\* what ChangeDetectionSystem.process_aoi did for the k-th AOI of the list
SystemAnswer(k) == ProcessAoi(locals.aoi_list[k], stats[k])

\* C29: a batch cycle yields exactly one result record per AOI of the input
\* list, in input order; an exception raised while processing an AOI is
\* recorded as that AOI's 'failed' record and the following AOIs are still
\* processed; success_count + failure_count is the number of AOIs.
OneRecordPerAoiInOrder ==
    /\ Len(locals.results) <= Len(locals.aoi_list)
    /\ \A k \in Processed :
        /\ locals.results[k].aoi_id = Get(locals.aoi_list[k], "aoi_id", "unknown")
        /\ locals.results[k].status \in {"success", "failed"}
        /\ ~SystemAnswer(k).ok
            => /\ locals.results[k].status = "failed"
               /\ locals.results[k].error = SystemAnswer(k).error
               /\ \E f \in locals.files :
                    /\ f.aoi_id = FileId(locals.aoi_list[k])
                    /\ f.suffix = "_error.json"
    /\ pc = "summary"
        => /\ Len(locals.results) = Len(locals.aoi_list)
           /\ locals.summary.results = locals.results
           /\ locals.summary.total_aois = Len(locals.aoi_list)
           /\ locals.summary.success_count + locals.summary.failure_count
                = Len(locals.aoi_list)
           /\ locals.summary.failure_count
                = Cardinality({k \in Processed : locals.results[k].status = "failed"})

FailedAoiFollowedByAnother ==
    /\ pc = "summary"
    /\ Len(locals.aoi_list) = 2
    /\ FileId(locals.aoi_list[1]) = "strict"
    /\ locals.results[1] = [aoi_id |-> "strict", status |-> "failed",
                            error |-> "Invalid threshold"]
    /\ locals.results[2].aoi_id = "lake"
    /\ locals.summary.failure_count = 2

\* C30 as stated: whenever ChangeDetectionSystem.process_aoi returns normally
\* for an AOI, the scheduler records it with status 'success' and writes its
\* result file, never an error file.
NormalReturnRecordedAsSuccess ==
    \A k \in Processed :
        SystemAnswer(k).ok
            => /\ locals.results[k].status = "success"
               /\ \E f \in locals.files :
                    /\ f.aoi_id = FileId(locals.aoi_list[k])
                    /\ f.suffix = "_result.json"
                    /\ f.content = "complete"
               /\ \A f \in locals.files :
                    f.aoi_id = FileId(locals.aoi_list[k]) => f.suffix # "_error.json"

\* process_aoi returned the results of the forest AOI and the scheduler left
\* a 'failed' record, an error file and a result file cut short
ServedAoiRecordedAsFailed ==
    /\ Len(locals.aoi_list) = 1
    /\ Len(locals.results) = 1
    /\ FileId(locals.aoi_list[1]) = "forest"
    /\ SystemAnswer(1).ok
    /\ SystemAnswer(1).results.alert_data.type = deforestation
    /\ locals.results[1].status = "failed"
    /\ locals.files =
        { [aoi_id |-> "forest", suffix |-> "_result.json", content |-> "partial"],
          [aoi_id |-> "forest", suffix |-> "_error.json", content |-> "complete"] }


----------------------------------------------------------------------------
(* The result file of the entry points *)

\* a detection run that completed: the script exists and its last run, the
\* one whose output is in the file, returned 0 with a result
RealRunCompleted ==
    /\ stats.script_exists
    /\ locals.output.real
    /\ \/ stats.first_run.starts /\ stats.first_run.returncode = 0
       \/ /\ stats.platform = "win32"
          /\ stats.second_run.starts
          /\ stats.second_run.returncode = 0

\* the script is missing, or every run of it failed
ScriptMissingOrFailed ==
    \/ ~stats.script_exists
    \/ /\ ~(stats.first_run.starts /\ stats.first_run.returncode = 0)
       /\ stats.platform = "win32"
            => ~(stats.second_run.starts /\ stats.second_run.returncode = 0)

\* C23 as stated: a result file has success=true only when a real detection
\* run completed successfully; whenever the detection script is missing or
\* fails, the written result reports success=false and no detected change.
SuccessOnlyFromRealRun ==
    (pc = "exited" /\ locals.output.written)
        => /\ locals.output.success => RealRunCompleted
           /\ ScriptMissingOrFailed
                => ~locals.output.success /\ ~locals.output.detectedChange

\* the wrapper found no detection script and wrote a success with a detected
\* change
DummySuccessWithoutScript ==
    /\ pc = "exited"
    /\ history = <<"run_detection_wrapper">>
    /\ ~stats.script_exists
    /\ locals.returncode = 0
    /\ locals.output = ResultFile(TRUE, TRUE, FALSE, water_body_change)


----------------------------------------------------------------------------
(* Two runs at once *)

\* the parameters the analyzer computes from each answer of the provider
AnalyzedTable ==
    [answer \in ConcurrentStats |->
        AnalyzeDataCharacteristics(answer, WellFormed(<<>>))] @@ <<>>

\* the parameters the analyzer of the run computes
AnalyzedFor(run) == AnalyzedTable[run.stats]

\* the bands of the run when it is the only one
Alone(run) ==
    LET p == AnalyzedFor(run)
        score == PrimaryScore(run.before, run.after, p)
        filtered == FalsePositiveFilters(
                        SeasonalFiltering(score, run.before, run.after),
                        run.before, run.after, p, run.nb)
    IN  [deforestation_score |-> score,
         filtered_score |-> filtered,
         thresholded_change |-> ThresholdedChange(filtered, p)]

\* C24: for any interleaving of the stages of two concurrent detection runs,
\* every stage of a run (scorer, cascade, thresholder) reads the parameters
\* computed by that same run's analyzer, so each run's result equals the
\* result it produces when run alone.
EveryStageReadsOwnParameters ==
    \A r \in RunIds :
        LET run == locals[r]
        IN  /\ "scorer_read" \in DOMAIN run =>
                /\ run.scorer_read = AnalyzedFor(run)
                /\ run.deforestation_score = Alone(run).deforestation_score
            /\ "cascade_read" \in DOMAIN run =>
                /\ run.cascade_read = AnalyzedFor(run)
                /\ run.filtered_score = Alone(run).filtered_score
            /\ "thresholder_read" \in DOMAIN run =>
                /\ run.thresholder_read = AnalyzedFor(run)
                /\ run.thresholded_change = Alone(run).thresholded_change

Position(r, name) == CHOOSE i \in DOMAIN history : history[i] = <<r, name>>

\* the analyzer of the second run ran between the analyzer and the scorer of
\* the first one, on another kind of vegetation, and the two results differ
InterleavedRunsBothDetected ==
    /\ \A r \in RunIds : locals[r].pc = "detected"
    /\ AnalyzedFor(locals[1]) # AnalyzedFor(locals[2])
    /\ Position(1, "analyzer") < Position(2, "analyzer")
    /\ Position(2, "analyzer") < Position(1, "scorer")
    /\ Position(1, "cascade") < Position(2, "scorer")
    /\ locals[1].before = locals[2].before
    /\ locals[1].after = locals[2].after
    /\ locals[1].deforestation_score # locals[2].deforestation_score

=============================================================================
